---- MODULE Spec2Model ----
(***************************************************************************)
(* Model of the portfolio backend: the Flask route handlers of             *)
(* backend/app.py over the two SQLite tables created by backend/db.py,     *)
(* and the SQL generation / validation of backend/ai_helper.py.            *)
(*                                                                         *)
(* Text is kept run-length encoded: a string is a sequence of runs [c, n]  *)
(* (character c repeated n >= 1 times, no two neighbouring runs with the   *)
(* same character), so that a 2001 character description is one run and    *)
(* len / strip / startswith are computed exactly.  The regular expressions *)
(* and the validation of create_sql_query work on the plain sequence of    *)
(* characters of the model's reply, Chars(s), character by character.      *)
(***************************************************************************)
EXTENDS Integers, Sequences, FiniteSets, TLC

VARIABLES
    projects,       \* rows of table projects: [id, title, description, tech_stack, github_url]
    contacts,       \* rows of table contacts: [id, name, email, message]
    seq,            \* sqlite_sequence: the largest id AUTOINCREMENT has handed out, per table
    schema,         \* the tables and indexes that exist in the database file
    DATABASE_URL,   \* app.DATABASE_URL, read once from the environment ("" when unset)
    client,         \* ai_helper.client: TRUE when an API client was configured
    req,            \* the request being answered (its route and inputs)
    resp,           \* the response of the handler to req
    trace,          \* what the handler did for req, in order
    submitted       \* history: the body of the POST that was answered 201 with each
                    \* project id, until a DELETE of that id is answered 200

vars == <<projects, contacts, seq, schema, DATABASE_URL, client, req, resp, trace, submitted>>

(***************************************************************************)
(* Bounds of the model.                                                    *)
(***************************************************************************)
MaxProjects == 2        \* project ids handed out in a run
MaxContacts == 1        \* contact ids handed out in a run

(***************************************************************************)
(* Python values.                                                          *)
(***************************************************************************)
\* Python None / JSON null, and a key that the JSON object does not hold: two
\* values that are no text (a run of length 0 never occurs in a string)
None == <<[c |-> "None", n |-> 0]>>
Absent == <<[c |-> "Absent", n |-> 0]>>

\* a request without a JSON body: request.get_json() gives no dict
NoBody == [json |-> FALSE]
HasBody(data) == data.json

\* F(v) with v computed a single time, however often F uses it
Once(F(_), v) == CHOOSE x \in {F(y) : y \in {v}} : TRUE

(***************************************************************************)
(* Run-length encoded text.                                                *)
(***************************************************************************)
Rep(c, n) == IF n = 0 THEN <<>> ELSE <<[c |-> c, n |-> n]>>

Whitespace == {" ", "\n", "\t"}

\* the number of characters in runs lo..hi of s (by halves, to keep the
\* evaluation shallow)
RECURSIVE LenOf(_, _, _)
LenOf(s, lo, hi) ==
    IF lo > hi THEN 0
    ELSE IF lo = hi THEN s[lo].n
    ELSE LenOf(s, lo, (lo + hi) \div 2) + LenOf(s, (lo + hi) \div 2 + 1, hi)

\* len(s)
PyLen(s) == LenOf(s, 1, Len(s))

\* str.strip(): the text between the first and the last non-whitespace character
PyStrip(s) ==
    LET solid == {i \in 1..Len(s) : s[i].c \notin Whitespace}
    IN  IF solid = {} THEN <<>>
        ELSE LET lo == CHOOSE i \in solid : \A j \in solid : i <= j
                 hi == CHOOSE i \in solid : \A j \in solid : j <= i
             IN  SubSeq(s, lo, hi)

\* the i-th character of s (1-based), i <= PyLen(s), looked for from run k on
RECURSIVE CharFrom(_, _, _)
CharFrom(s, k, i) == IF i <= s[k].n THEN s[k].c ELSE CharFrom(s, k + 1, i - s[k].n)

CharAt(s, i) == CharFrom(s, 1, i)

\* str.startswith(prefix), prefix a plain sequence of characters
PyStartsWith(s, prefix) ==
    /\ PyLen(s) >= Len(prefix)
    /\ \A i \in 1..Len(prefix) : CharAt(s, i) = prefix[i]

\* c in s
PyHasChar(s, c) == \E i \in 1..Len(s) : s[i].c = c

\* the characters of runs lo..hi of s, one by one
RECURSIVE CharsOf(_, _, _)
CharsOf(s, lo, hi) ==
    IF lo > hi THEN <<>>
    ELSE IF lo = hi THEN [j \in 1..s[lo].n |-> s[lo].c]
    ELSE CharsOf(s, lo, (lo + hi) \div 2) \o CharsOf(s, (lo + hi) \div 2 + 1, hi)

Chars(s) == CharsOf(s, 1, Len(s))

\* two texts one after the other: the runs that meet are one run when they
\* hold the same character
Concat(a, b) ==
    IF a = <<>> THEN b
    ELSE IF b = <<>> THEN a
    ELSE IF a[Len(a)].c = b[1].c
    THEN SubSeq(a, 1, Len(a) - 1) \o <<[c |-> b[1].c, n |-> a[Len(a)].n + b[1].n]>> \o Tail(b)
    ELSE a \o b

\* the text made of the characters lo..hi of cs
RECURSIVE TextOf(_, _, _)
TextOf(cs, lo, hi) ==
    IF lo > hi THEN <<>>
    ELSE IF lo = hi THEN <<[c |-> cs[lo], n |-> 1]>>
    ELSE LET Left(a) == LET Right(b) == Concat(a, b)
                        IN  Once(Right, TextOf(cs, (lo + hi) \div 2 + 1, hi))
         IN  Once(Left, TextOf(cs, lo, (lo + hi) \div 2))

Text(cs) == TextOf(cs, 1, Len(cs))

\* data.get(field): None for a missing key
Get(data, field) == IF data[field] = Absent THEN None ELSE data[field]

\* `not data.get(field) or not data.get(field).strip()`
MissingField(data, field) ==
    \/ Get(data, field) = None
    \/ Get(data, field) = <<>>
    \/ PyStrip(Get(data, field)) = <<>>

(***************************************************************************)
(* The database: sqlite3 as db.py opens it, and the schema of init_db.     *)
(***************************************************************************)
\* the four parts of the database file, handed to the handlers as one value
DB == [projects |-> projects, contacts |-> contacts, seq |-> seq, schema |-> schema]

\* get_db_connection(): the driver behind the connection it returns
get_db_connection == "sqlite"

\* the parameter marker a handler writes into its SQL
Placeholder(url) == IF url # "" THEN "%s" ELSE "?"

\* whether the driver can run a statement written with that marker:
\* sqlite3 is qmark style ("%s" is a syntax error), psycopg2 is format style
ParamStyleOk(driver, marker) ==
    \/ driver = "sqlite" /\ marker = "?"
    \/ driver = "postgres" /\ marker = "%s"

\* a projects table created without its constraints
ProjectsUnchecked(row) == TRUE

\* CREATE TABLE projects: NOT NULL and CHECK(length(..) <= n) of each column
ProjectsCheck(row) ==
    /\ row.title # None /\ PyLen(row.title) <= 200
    /\ row.description # None /\ PyLen(row.description) <= 2000
    /\ row.tech_stack # None /\ PyLen(row.tech_stack) <= 300
    /\ (row.github_url = None \/ PyLen(row.github_url) <= 300)

\* CREATE TABLE contacts: NOT NULL and CHECK(length(..) <= n) of each column
ContactsCheck(row) ==
    /\ row.name # None /\ PyLen(row.name) <= 100
    /\ row.email # None /\ PyLen(row.email) <= 100
    /\ row.message # None /\ PyLen(row.message) <= 1000

\* the tables and indexes init_db creates
Schema == {"projects", "contacts", "idx_projects_created", "idx_contacts_created"}

\* an init_db that drops the tables before it creates them, as reset_db does
init_db_recreate(db) ==
    [db EXCEPT !.schema = Schema, !.projects = {}, !.contacts = {},
               !.seq = [projects |-> 0, contacts |-> 0]]

\* init_db(): CREATE TABLE IF NOT EXISTS for both tables and CREATE INDEX IF
\* NOT EXISTS for both indexes; what exists is left alone, rows included
init_db(db) == [db EXCEPT !.schema = db.schema \cup Schema]

\* the rows of a table by descending id (ORDER BY id DESC)
RECURSIVE OrderByIdDesc(_)
OrderByIdDesc(rows) ==
    IF rows = {} THEN <<>>
    ELSE LET top == CHOOSE r \in rows : \A o \in rows : o.id <= r.id
         IN  <<top>> \o OrderByIdDesc(rows \ {top})

(***************************************************************************)
(* What a handler did, in order: events [op, arg].                         *)
(***************************************************************************)
Ev(op, arg) == [op |-> op, arg |-> arg]
Ops(names) == [i \in DOMAIN names |-> Ev(names[i], None)]

\* fault: sqlite3.connect (or the PRAGMA after it) raises in get_db_connection,
\* the database file being locked or unreadable; the event is "connect_failed"

(***************************************************************************)
(* What a handler's try block yields: a response, or an exception.         *)
(***************************************************************************)
Respond(status, body, db, tr) ==
    [raised |-> FALSE, exc |-> "", status |-> status, body |-> body, db |-> db, trace |-> tr]

\* an exception leaves the try block; nothing was committed, so the database
\* is the one the request found
Raise(exc, db, tr) ==
    [raised |-> TRUE, exc |-> exc, status |-> 0, body |-> [error |-> exc], db |-> db, trace |-> tr]

\* a handler without its except clause
ExceptNothing(r, status, body) == r

\* `except Exception as e: return jsonify(body), status`
ExceptException(r, status, body) ==
    IF r.raised
    THEN [raised |-> FALSE, exc |-> r.exc, status |-> status, body |-> body,
          db |-> r.db, trace |-> r.trace]
    ELSE r

(***************************************************************************)
(* GET /api/projects                                                       *)
(***************************************************************************)
get_projects_try(fault, db) ==
    IF fault THEN Raise("OperationalError", db, Ops(<<"connect_failed">>))
    ELSE IF "projects" \notin db.schema
    THEN Raise("OperationalError", db, Ops(<<"connect", "select">>))
    ELSE Respond(200, [projects |-> OrderByIdDesc(db.projects)], db,
                 Ops(<<"connect", "select", "close">>))

get_projects(fault, db) ==
    LET Caught(r) == ExceptException(r, 500, [error |-> "Failed to fetch projects"])
    IN  Once(Caught, get_projects_try(fault, db))

(***************************************************************************)
(* POST /api/projects                                                      *)
(***************************************************************************)
ProjectRequired == <<"title", "description", "tech_stack">>

\* the first required field that is missing or blank, 0 when there is none
FirstMissing(data, fields) ==
    LET bad == {i \in 1..Len(fields) : MissingField(data, fields[i])}
    IN  IF bad = {} THEN 0 ELSE CHOOSE i \in bad : \A j \in bad : i <= j

\* an INSERT that leaves the github_url column out
InsertProjectNoUrl(db, row) ==
    LET id == db.seq.projects + 1
    IN  [db EXCEPT !.projects = @ \cup {[id |-> id] @@ [row EXCEPT !.github_url = None]},
                   !.seq = [@ EXCEPT !.projects = id]]

\* INSERT INTO projects (title, description, tech_stack, github_url) on the
\* open connection: the id is the next AUTOINCREMENT value
InsertProject(db, row) ==
    LET id == db.seq.projects + 1
    IN  [db EXCEPT !.projects = @ \cup {[id |-> id] @@ row},
                   !.seq = [@ EXCEPT !.projects = id]]

create_project_try(data, fault, db, url) ==
    IF ~HasBody(data) THEN Raise("AttributeError", db, Ops(<<>>))
    ELSE IF FirstMissing(data, ProjectRequired) # 0
    THEN Respond(400, [error |-> "Missing required field",
                       field |-> ProjectRequired[FirstMissing(data, ProjectRequired)]], db, Ops(<<>>))
    ELSE IF data.github_url = None THEN Raise("AttributeError", db, Ops(<<>>))
    ELSE
    LET title == PyStrip(data.title)
        description == PyStrip(data.description)
        tech_stack == PyStrip(data.tech_stack)
        stripped_url == IF data.github_url = Absent THEN <<>> ELSE PyStrip(data.github_url)
        github_url == IF stripped_url = <<>> THEN None ELSE stripped_url
        row == [title |-> title, description |-> description,
                tech_stack |-> tech_stack, github_url |-> github_url]
    IN  IF PyLen(title) > 200 THEN Respond(400, [error |-> "Title too long"], db, Ops(<<>>))
        ELSE IF PyLen(description) > 2000
        THEN Respond(400, [error |-> "Description too long"], db, Ops(<<>>))
        ELSE IF PyLen(tech_stack) > 300
        THEN Respond(400, [error |-> "Tech stack too long"], db, Ops(<<>>))
        ELSE IF github_url # None /\ ~PyStartsWith(github_url, <<"h", "t", "t", "p">>)
        THEN Respond(400, [error |-> "Invalid GitHub URL"], db, Ops(<<>>))
        ELSE IF fault THEN Raise("OperationalError", db, Ops(<<"connect_failed">>))
        ELSE IF ~ParamStyleOk(get_db_connection, Placeholder(url))
        THEN Raise("OperationalError", db, Ops(<<"connect", "insert">>))
        ELSE IF "projects" \notin db.schema
        THEN Raise("OperationalError", db, Ops(<<"connect", "insert">>))
        ELSE IF ~ProjectsCheck(row)
        THEN Raise("IntegrityError", db, Ops(<<"connect", "insert">>))
        ELSE Respond(201, [message |-> "Project created successfully",
                           project_id |-> db.seq.projects + 1],
                     InsertProject(db, row), Ops(<<"connect", "insert", "commit", "close">>))

create_project(data, fault, db, url) ==
    LET Caught(r) == ExceptException(r, 500, [error |-> "Database error"])
    IN  Once(Caught, create_project_try(data, fault, db, url))

(***************************************************************************)
(* DELETE /api/projects/<int:project_id>                                   *)
(***************************************************************************)
\* a DELETE statement without its WHERE clause
delete_project_all(project_id, fault, db, url) ==
    IF fault THEN Raise("OperationalError", db, Ops(<<"connect_failed">>))
    ELSE IF ~ParamStyleOk(get_db_connection, Placeholder(url))
    THEN Raise("OperationalError", db, Ops(<<"connect", "select">>))
    ELSE IF "projects" \notin db.schema
    THEN Raise("OperationalError", db, Ops(<<"connect", "select">>))
    ELSE IF ~\E r \in db.projects : r.id = project_id
    THEN Respond(404, [error |-> "Project not found"], db, Ops(<<"connect", "select", "close">>))
    ELSE Respond(200, [message |-> "Project deleted successfully", project_id |-> project_id],
                 [db EXCEPT !.projects = {}],
                 Ops(<<"connect", "select", "delete", "commit", "close">>))

delete_project_try(project_id, fault, db, url) ==
    IF fault THEN Raise("OperationalError", db, Ops(<<"connect_failed">>))
    ELSE IF ~ParamStyleOk(get_db_connection, Placeholder(url))
    THEN Raise("OperationalError", db, Ops(<<"connect", "select">>))
    ELSE IF "projects" \notin db.schema
    THEN Raise("OperationalError", db, Ops(<<"connect", "select">>))
    ELSE IF ~\E r \in db.projects : r.id = project_id
    THEN Respond(404, [error |-> "Project not found"], db, Ops(<<"connect", "select", "close">>))
    ELSE Respond(200, [message |-> "Project deleted successfully", project_id |-> project_id],
                 [db EXCEPT !.projects = {r \in @ : r.id # project_id}],
                 Ops(<<"connect", "select", "delete", "commit", "close">>))

delete_project(project_id, fault, db, url) ==
    LET Caught(r) == ExceptException(r, 500, [error |-> "Database error"])
    IN  Once(Caught, delete_project_try(project_id, fault, db, url))

(***************************************************************************)
(* POST /api/contact                                                       *)
(***************************************************************************)
ContactRequired == <<"name", "email", "message">>

InsertContact(db, row) ==
    LET id == db.seq.contacts + 1
    IN  [db EXCEPT !.contacts = @ \cup {[id |-> id] @@ row},
                   !.seq = [@ EXCEPT !.contacts = id]]

submit_contact_try(data, fault, db, url) ==
    IF ~HasBody(data) THEN Raise("AttributeError", db, Ops(<<>>))
    ELSE IF FirstMissing(data, ContactRequired) # 0
    THEN Respond(400, [error |-> "Missing field",
                       field |-> ContactRequired[FirstMissing(data, ContactRequired)]], db, Ops(<<>>))
    ELSE
    LET name == PyStrip(data.name)
        email == PyStrip(data.email)
        message == PyStrip(data.message)
        row == [name |-> name, email |-> email, message |-> message]
    IN  IF PyLen(name) > 100 \/ PyLen(email) > 100 \/ PyLen(message) > 1000
        THEN Respond(400, [error |-> "Input too long"], db, Ops(<<>>))
        ELSE IF ~PyHasChar(email, "@")
        THEN Respond(400, [error |-> "Invalid email"], db, Ops(<<>>))
        ELSE IF fault THEN Raise("OperationalError", db, Ops(<<"connect_failed">>))
        ELSE IF ~ParamStyleOk(get_db_connection, Placeholder(url))
        THEN Raise("OperationalError", db, Ops(<<"connect", "insert">>))
        ELSE IF "contacts" \notin db.schema
        THEN Raise("OperationalError", db, Ops(<<"connect", "insert">>))
        ELSE IF ~ContactsCheck(row)
        THEN Raise("IntegrityError", db, Ops(<<"connect", "insert">>))
        ELSE Respond(201, [message |-> "Contact form submitted successfully",
                           contact_id |-> db.seq.contacts + 1],
                     InsertContact(db, row), Ops(<<"connect", "insert", "commit", "close">>))

submit_contact(data, fault, db, url) ==
    LET Caught(r) == ExceptException(r, 500, [error |-> "Failed to submit contact form"])
    IN  Once(Caught, submit_contact_try(data, fault, db, url))

(***************************************************************************)
(* POST /api/admin/verify                                                  *)
(***************************************************************************)
\* os.getenv('ADMIN_PASSWORD', ...): the configured password
ADMIN_PASSWORD == Text(<<"p", "w">>)

\* a comparison with the password as it was submitted
verify_admin_unstripped(data, db) ==
    IF ~HasBody(data) THEN Raise("AttributeError", db, <<>>)
    ELSE IF Get(data, "password") = None \/ Get(data, "password") = <<>>
    THEN Respond(400, [error |-> "Password required"], db, <<>>)
    ELSE IF data.password = ADMIN_PASSWORD
    THEN Respond(200, [success |-> TRUE, token |-> "sha256"], db, <<>>)
    ELSE Respond(401, [error |-> "Invalid password"], db, <<>>)

verify_admin_try(data, db) ==
    IF ~HasBody(data) THEN Raise("AttributeError", db, <<>>)
    ELSE IF Get(data, "password") = None \/ Get(data, "password") = <<>>
    THEN Respond(400, [error |-> "Password required"], db, <<>>)
    ELSE IF PyStrip(data.password) = ADMIN_PASSWORD
    THEN Respond(200, [success |-> TRUE, token |-> "sha256"], db, <<>>)
    ELSE Respond(401, [error |-> "Invalid password"], db, <<>>)

verify_admin(data, db) ==
    LET Caught(r) == ExceptException(r, 500, [error |-> "Verification failed"])
    IN  Once(Caught, verify_admin_try(data, db))

(***************************************************************************)
(* GET /api/health                                                         *)
(***************************************************************************)
health_check(db) == Respond(200, [status |-> "healthy"], db, <<>>)

(***************************************************************************)
(* Plain character sequences: what re and str do in create_sql_query.      *)
(***************************************************************************)
\* the character U+0060 (grave accent), which a TLA+ string cannot hold
Backtick == "U+0060"

LowerAZ == <<"a", "b", "c", "d", "e", "f", "g", "h", "i", "j", "k", "l", "m", "n", "o", "p", "q", "r", "s", "t", "u", "v", "w", "x", "y", "z">>
UpperAZ == <<"A", "B", "C", "D", "E", "F", "G", "H", "I", "J", "K", "L", "M", "N", "O", "P", "Q", "R", "S", "T", "U", "V", "W", "X", "Y", "Z">>

ToUpper == [c \in {LowerAZ[i] : i \in DOMAIN LowerAZ} |->
                UpperAZ[CHOOSE i \in DOMAIN LowerAZ : LowerAZ[i] = c]]
ToLower == [c \in {UpperAZ[i] : i \in DOMAIN UpperAZ} |->
                LowerAZ[CHOOSE i \in DOMAIN UpperAZ : UpperAZ[i] = c]]

UpperChar(c) == IF c \in DOMAIN ToUpper THEN ToUpper[c] ELSE c
LowerChar(c) == IF c \in DOMAIN ToLower THEN ToLower[c] ELSE c

\* str.upper(), str.lower()
PyUpper(cs) == [i \in DOMAIN cs |-> UpperChar(cs[i])]
PyLower(cs) == [i \in DOMAIN cs |-> LowerChar(cs[i])]

\* pat occurs in cs at position i
MatchAt(cs, i, pat) ==
    /\ i + Len(pat) - 1 <= Len(cs)
    /\ \A j \in 1..Len(pat) : cs[i + j - 1] = pat[j]

\* `pat in cs`
PyIn(pat, cs) == \E i \in 1..Len(cs) : MatchAt(cs, i, pat)

\* the first position at which pat occurs in cs, 0 when it does not
Find(cs, pat) ==
    LET at == {i \in 1..Len(cs) : MatchAt(cs, i, pat)}
    IN  IF at = {} THEN 0 ELSE CHOOSE i \in at : \A j \in at : i <= j

\* cs from position i to its end
From(cs, i) == SubSeq(cs, i, Len(cs))

\* str.strip() on characters
StripChars(cs) ==
    LET solid == {i \in 1..Len(cs) : cs[i] \notin Whitespace}
    IN  IF solid = {} THEN <<>>
        ELSE SubSeq(cs, CHOOSE i \in solid : \A j \in solid : i <= j,
                        CHOOSE i \in solid : \A j \in solid : j <= i)

\* str.rstrip(';')
RECURSIVE RStripSemicolon(_)
RStripSemicolon(cs) ==
    IF cs # <<>> /\ cs[Len(cs)] = ";" THEN RStripSemicolon(SubSeq(cs, 1, Len(cs) - 1)) ELSE cs

\* ' '.join(cs.split()): runs of whitespace become one space, none at the ends
RECURSIVE JoinSplit(_)
JoinSplit(cs) ==
    LET t == StripChars(cs)
        gaps == {i \in 1..Len(t) : t[i] \in Whitespace}
    IN  IF gaps = {} THEN t
        ELSE LET g == CHOOSE i \in gaps : \A j \in gaps : i <= j
             IN  SubSeq(t, 1, g - 1) \o <<" ">> \o JoinSplit(From(t, g))

\* re.sub(pat + r'\n?', '', cs), pat a literal; ci: re.IGNORECASE
RECURSIVE SubLiteralNewline(_, _, _)
SubLiteralNewline(cs, pat, ci) ==
    LET hay == IF ci THEN PyUpper(cs) ELSE cs
        at == Find(hay, IF ci THEN PyUpper(pat) ELSE pat)
        after == at + Len(pat)
        next == IF after <= Len(cs) /\ cs[after] = "\n" THEN after + 1 ELSE after
    IN  IF at = 0 THEN cs
        ELSE SubSeq(cs, 1, at - 1) \o SubLiteralNewline(From(cs, next), pat, ci)

\* cs without its leading whitespace
RECURSIVE LStripChars(_)
LStripChars(cs) == IF cs # <<>> /\ cs[1] \in Whitespace THEN LStripChars(Tail(cs)) ELSE cs

\* re.sub(r'^(SQL|Query):\s*', '', cs, flags=re.IGNORECASE)
SubSqlPrefix(cs) ==
    LET up == PyUpper(cs)
    IN  IF MatchAt(up, 1, <<"S", "Q", "L", ":">>) THEN LStripChars(From(cs, 5))
        ELSE IF MatchAt(up, 1, <<"Q", "U", "E", "R", "Y", ":">>) THEN LStripChars(From(cs, 7))
        ELSE cs

\* re.search(r'(SELECT.*?)(?:;|$)', cs, re.IGNORECASE | re.DOTALL): group(1),
\* <<>> when there is no match (a match holds at least the six letters)
SearchSelect(cs) ==
    LET at == Find(PyUpper(cs), <<"S", "E", "L", "E", "C", "T">>)
        rest == From(cs, at)
        semis == {i \in 7..Len(rest) : rest[i] = ";"}
        stop == IF semis = {} THEN Len(rest) + 1 ELSE CHOOSE i \in semis : \A j \in semis : i <= j
    IN  IF at = 0 THEN <<>>
        \* `$` also matches before a newline that ends the text
        ELSE IF semis = {} /\ rest[Len(rest)] = "\n" /\ Len(rest) > 6
        THEN SubSeq(rest, 1, Len(rest) - 1)
        ELSE SubSeq(rest, 1, stop - 1)

(***************************************************************************)
(* ai_helper.call_hf_chat: the hosted models, tried in the order of MODELS *)
(***************************************************************************)
MODELS == <<"openai/gpt-oss-20b:groq", "mistralai/Mistral-7B-Instruct-v0.2">>

\* what one model does when called: it raises, or it completes with a message
\* content (None: no choices, no message or no content)
Outcome(raises, content) == [raises |-> raises, content |-> content]

\* the model's completion passes every `if` down to `if text: return text`
Yields(out) == ~out.raises /\ out.content # None /\ PyStrip(out.content) # <<>>

\* a loop that does not return from inside: every model is called and the
\* text of the last one that yields is returned
call_hf_chat_no_return(cl, outs) ==
    IF ~cl THEN [text |-> None, calls |-> 0]
    ELSE LET good == {i \in DOMAIN MODELS : Yields(outs[i])}
         IN  IF good = {} THEN [text |-> None, calls |-> Len(MODELS)]
             ELSE LET last == CHOOSE i \in good : \A j \in good : j <= i
                  IN  [text |-> PyStrip(outs[last].content), calls |-> Len(MODELS)]

\* outs[i] is what MODELS[i] would do; text is the value returned, calls the
\* number of models that were called
call_hf_chat(cl, outs) ==
    IF ~cl THEN [text |-> None, calls |-> 0]
    ELSE LET good == {i \in DOMAIN MODELS : Yields(outs[i])}
         IN  IF good = {} THEN [text |-> None, calls |-> Len(MODELS)]
             ELSE LET first == CHOOSE i \in good : \A j \in good : i <= j
                  IN  [text |-> PyStrip(outs[first].content), calls |-> first]

\* call_hf_api(prompt): the same call with a single user message
call_hf_api(cl, outs) == call_hf_chat(cl, outs)

(***************************************************************************)
(* ai_helper.create_sql_query                                              *)
(***************************************************************************)
\* the clean-up of the model's reply, down to `' '.join(sql_query.split())`.
\* The loop over the lines of the reply never finds a line that starts with
\* SELECT when the search for SELECT found nothing, so its else branch is
\* what runs without a match.
ExtractSql(response) ==
    LET unfenced == SubLiteralNewline(SubLiteralNewline(response, <<Backtick, Backtick, Backtick, "s", "q", "l">>, TRUE),
                                      <<Backtick, Backtick, Backtick>>, FALSE)
        bare == SubSqlPrefix(unfenced)
        found == SearchSelect(bare)
        sql_query == IF found # <<>> THEN StripChars(found)
                     ELSE RStripSemicolon(StripChars(bare))
    IN  JoinSplit(sql_query)

dangerous == <<<<"D", "R", "O", "P">>, <<"D", "E", "L", "E", "T", "E">>, <<"U", "P", "D", "A", "T", "E">>, <<"I", "N", "S", "E", "R", "T">>,
               <<"A", "L", "T", "E", "R">>, <<"C", "R", "E", "A", "T", "E">>, <<"T", "R", "U", "N", "C", "A", "T", "E">>>>

\* a validation that only looks at how the query starts
ValidateSqlStart(sql_query) == MatchAt(PyUpper(sql_query), 1, <<"S", "E", "L", "E", "C", "T">>)

\* the three checks a query passes before create_sql_query returns it
ValidateSql(sql_query) ==
    LET upper == PyUpper(sql_query)
    IN  /\ MatchAt(upper, 1, <<"S", "E", "L", "E", "C", "T">>)
        /\ PyIn(<<"F", "R", "O", "M">>, upper)
        /\ ~\E w \in DOMAIN dangerous : PyIn(dangerous[w], upper)

\* sql is the query returned (None when none is), calls the models called
create_sql_query(cl, outs) ==
    IF ~cl THEN [sql |-> None, calls |-> 0]
    ELSE LET Replied(r) ==
                 LET Extracted(sql_query) ==
                         IF ValidateSql(sql_query)
                         THEN [sql |-> Text(sql_query), calls |-> r.calls]
                         ELSE [sql |-> None, calls |-> r.calls]
                 IN  IF r.text = None THEN [sql |-> None, calls |-> r.calls]
                     ELSE Once(Extracted, ExtractSql(Chars(r.text)))
         IN  Once(Replied, call_hf_api(cl, outs))

(***************************************************************************)
(* cursor.execute(sql_query); cursor.fetchall() on the SQLite connection   *)
(* of the chat handler, which never commits.                               *)
(***************************************************************************)
\* a value of a result row
IntCell(i) == [t |-> "int", i |-> i, s |-> <<>>]
TextCell(s) == [t |-> "text", i |-> 0, s |-> s]

\* the rows of a table by ascending id (rowid order)
RECURSIVE OrderById(_)
OrderById(rows) ==
    IF rows = {} THEN <<>>
    ELSE LET low == CHOOSE r \in rows : \A o \in rows : r.id <= o.id
         IN  <<low>> \o OrderById(rows \ {low})

Titles(rows) == [i \in DOMAIN rows |-> <<TextCell(rows[i].title)>>]

\* SELECT title, description, tech_stack
Listing(rows) ==
    [i \in DOMAIN rows |-> <<TextCell(rows[i].title), TextCell(rows[i].description),
                             TextCell(rows[i].tech_stack)>>]

Fetched(rows, db) == [ok |-> TRUE, rows |-> rows, db |-> db]
SqlError(db) == [ok |-> FALSE, rows |-> <<>>, db |-> db]

\* SQLite keywords and column names are case-insensitive.  A statement that
\* is no SQL, that uses ILIKE (PostgreSQL only) or that names a missing table
\* raises OperationalError.  DROP TABLE runs at once (DDL opens no
\* transaction); a DELETE stays in a transaction that is never committed.
sqlite_execute(sql_query, db) ==
    LET has_projects == "projects" \in db.schema
        by_id == OrderById(db.projects)
        latest == IF by_id = <<>> THEN <<>> ELSE <<by_id[Len(by_id)]>>
        Run(upper) ==
        IF PyIn(<<" ", "I", "L", "I", "K", "E", " ">>, upper) THEN SqlError(db)
        ELSE IF upper = <<"S", "E", "L", "E", "C", "T", " ", "C", "O", "U", "N", "T", "(", "*", ")", " ", "F", "R", "O", "M", " ", "P", "R", "O", "J", "E", "C", "T", "S">>
        THEN IF has_projects THEN Fetched(<< <<IntCell(Cardinality(db.projects))>> >>, db)
             ELSE SqlError(db)
        ELSE IF upper = <<"S", "E", "L", "E", "C", "T", " ", "T", "I", "T", "L", "E", " ", "F", "R", "O", "M", " ", "P", "R", "O", "J", "E", "C", "T", "S">>
        THEN IF has_projects THEN Fetched(Titles(by_id), db) ELSE SqlError(db)
        ELSE IF upper = <<"S", "E", "L", "E", "C", "T", " ", "T", "I", "T", "L", "E", ",", " ", "D", "E", "S", "C", "R", "I", "P", "T", "I", "O", "N", ",", " ", "T", "E", "C", "H", "_", "S", "T", "A", "C", "K", " ", "F", "R", "O", "M", " ", "P", "R", "O", "J", "E", "C", "T", "S">>
        THEN IF has_projects THEN Fetched(Listing(by_id), db) ELSE SqlError(db)
        ELSE IF upper = <<"S", "E", "L", "E", "C", "T", " ", "T", "I", "T", "L", "E", ",", " ", "D", "E", "S", "C", "R", "I", "P", "T", "I", "O", "N", ",", " ", "T", "E", "C", "H", "_", "S", "T", "A", "C", "K", " ", "F", "R", "O", "M", " ", "P", "R", "O", "J", "E", "C", "T", "S", " ", "O", "R", "D", "E", "R", " ", "B", "Y", " ", "C", "R", "E", "A", "T", "E", "D", "_", "A", "T", " ", "D", "E", "S", "C", " ", "L", "I", "M", "I", "T", " ", "1">>
        THEN IF has_projects THEN Fetched(Listing(latest), db) ELSE SqlError(db)
        ELSE IF upper = <<"S", "E", "L", "E", "C", "T", " ", "1">> THEN Fetched(<< <<IntCell(1)>> >>, db)
        ELSE IF upper = <<"D", "E", "L", "E", "T", "E", " ", "F", "R", "O", "M", " ", "P", "R", "O", "J", "E", "C", "T", "S">>
        THEN IF has_projects THEN Fetched(<<>>, db) ELSE SqlError(db)
        ELSE IF upper = <<"D", "R", "O", "P", " ", "T", "A", "B", "L", "E", " ", "P", "R", "O", "J", "E", "C", "T", "S">>
        THEN IF has_projects
             THEN Fetched(<<>>, [db EXCEPT !.schema = @ \ {"projects", "idx_projects_created"},
                                           !.projects = {},
                                           !.seq = [@ EXCEPT !.projects = 0]])
             ELSE SqlError(db)
        ELSE SqlError(db)
    IN  Once(Run, PyUpper(sql_query))

(***************************************************************************)
(* ai_helper.format_sql_results                                            *)
(***************************************************************************)
Digits == <<"0", "1", "2", "3", "4", "5", "6", "7", "8", "9">>

\* str(n) for an integer n >= 0
RECURSIVE DecChars(_)
DecChars(n) == IF n < 10 THEN <<Digits[n + 1]>>
               ELSE DecChars(n \div 10) \o <<Digits[(n % 10) + 1]>>

\* str(cell)
Str(cell) == IF cell.t = "int" THEN Text(DecChars(cell.i)) ELSE cell.s

\* an answer: the f-string that built it and the values put into it
Answer(fmt, args) == [fmt |-> fmt, args |-> args]

\* 's' if count != 1 else ''
PluralS(count) == IF count # IntCell(1) THEN Text(<<"s">>) ELSE <<>>

WordChars == {LowerAZ[i] : i \in DOMAIN LowerAZ} \cup {UpperAZ[i] : i \in DOMAIN UpperAZ}
             \cup {Digits[i] : i \in DOMAIN Digits} \cup {"_"}

\* the characters of cs from position i on that are word characters
RECURSIVE WordAt(_, _)
WordAt(cs, i) == IF i <= Len(cs) /\ cs[i] \in WordChars THEN <<cs[i]>> \o WordAt(cs, i + 1)
                 ELSE <<>>

\* the first position from i on that holds no whitespace
RECURSIVE SkipSpace(_, _)
SkipSpace(cs, i) == IF i <= Len(cs) /\ cs[i] \in Whitespace THEN SkipSpace(cs, i + 1) ELSE i

\* re.search(r'use[sd]?\s+(\w+)', cs): group(1), <<>> when there is no match
SearchUse(cs) ==
    LET gap(i) == IF i + 3 <= Len(cs) /\ cs[i + 3] \in {"s", "d"}
                     /\ i + 4 <= Len(cs) /\ cs[i + 4] \in Whitespace
                  THEN i + 4 ELSE i + 3
        hit(i) == /\ MatchAt(cs, i, <<"u", "s", "e">>)
                  /\ gap(i) <= Len(cs) /\ cs[gap(i)] \in Whitespace
                  /\ WordAt(cs, SkipSpace(cs, gap(i))) # <<>>
        at == {i \in 1..Len(cs) : hit(i)}
    IN  IF at = {} THEN <<>>
        ELSE WordAt(cs, SkipSpace(cs, gap(CHOOSE i \in at : \A j \in at : i <= j)))

\* str.capitalize()
Capitalize(cs) == [i \in DOMAIN cs |-> IF i = 1 THEN UpperChar(cs[i]) ELSE LowerChar(cs[i])]

\* the sentence for a COUNT query, built without the hosted model
CountSentence(question_lower, count) ==
    LET n == Str(count)
        tech_match == SearchUse(question_lower)
    IN  IF PyIn(<<"h", "a", "c", "k", "a", "t", "h", "o", "n">>, question_lower)
        THEN IF \E w \in {<<"w", "o", "n">>, <<"w", "i", "n">>, <<"w", "i", "n", "s">>, <<"w", "i", "n", "n", "e", "r">>} : PyIn(w, question_lower)
             THEN Answer("Konstantin has won {count} hackathon{s}.", <<n, PluralS(count)>>)
             ELSE Answer("Konstantin has {count} project{s} involving hackathons.",
                         <<n, PluralS(count)>>)
        ELSE IF (\E w \in {<<"p", "y", "t", "h", "o", "n">>, <<"j", "a", "v", "a">>, <<"j", "a", "v", "a", "s", "c", "r", "i", "p", "t">>, <<"r", "e", "a", "c", "t">>, <<"u", "s", "e">>} :
                    PyIn(w, question_lower)) /\ tech_match # <<>>
        THEN Answer("Konstantin has {count} project{s} that use{s} {tech}.",
                    <<n, PluralS(count), IF count = IntCell(1) THEN Text(<<"s">>) ELSE <<>>,
                      Text(Capitalize(tech_match))>>)
        ELSE Answer("Konstantin has {count} project{s}.", <<n, PluralS(count)>>)

\* the names between the commas of the first column of every row.  The code
\* lists them sorted; here they are listed in no particular order.
RECURSIVE SplitComma(_)
SplitComma(cs) ==
    LET commas == {i \in 1..Len(cs) : cs[i] = ","}
    IN  IF commas = {} THEN {StripChars(cs)} \ {<<>>}
        ELSE LET k == CHOOSE i \in commas : \A j \in commas : i <= j
             IN  ({StripChars(SubSeq(cs, 1, k - 1))} \ {<<>>}) \cup SplitComma(From(cs, k + 1))

RECURSIVE Listed(_)
Listed(names) == IF names = {} THEN <<>>
                 ELSE LET one == CHOOSE x \in names : TRUE
                      IN  <<Text(one)>> \o Listed(names \ {one})

\* sql_query is None when the caller passes no query.
\* answer is the text returned, calls the models called for it
format_sql_results(user_question, results, sql_query, cl, outs) ==
    LET question_lower == PyLower(Chars(user_question))
        is_count_query == sql_query # None /\ PyIn(<<"C", "O", "U", "N", "T", "(", "*", ")">>, PyUpper(Chars(sql_query)))
        is_tech_stack_query == /\ sql_query # None
                               /\ PyIn(<<"t", "e", "c", "h", "_", "s", "t", "a", "c", "k">>, PyLower(Chars(sql_query)))
                               /\ ~PyIn(<<"C", "O", "U", "N", "T">>, PyUpper(Chars(sql_query)))
        all_techs == UNION {SplitComma(Chars(Str(results[i][1]))) : i \in DOMAIN results}
        ai == call_hf_api(cl, outs)
        titles == [i \in 1..(IF Len(results) < 5 THEN Len(results) ELSE 5) |-> Str(results[i][1])]
    IN  IF results = <<>>
        THEN [answer |-> Answer("No matching projects were found.", <<>>), calls |-> 0]
        ELSE IF is_count_query
        THEN [answer |-> CountSentence(question_lower, results[1][1]), calls |-> 0]
        ELSE IF is_tech_stack_query
        THEN [answer |-> IF all_techs # {}
                         THEN Answer("Konstantin has used: {tech_list}", Listed(all_techs))
                         ELSE Answer("No technologies found.", <<>>),
              calls |-> 0]
        ELSE IF cl /\ Len(results) <= 5 /\ ai.text # None /\ PyLen(ai.text) > 10
        THEN [answer |-> Answer("{response}", <<PyStrip(ai.text)>>), calls |-> ai.calls]
        ELSE LET spent == IF cl /\ Len(results) <= 5 THEN ai.calls ELSE 0
             IN  IF Len(results) = 1
                 THEN [answer |-> Answer("{row[0]}", <<Str(results[1][1])>>), calls |-> spent]
                 ELSE IF Len(results) <= 5
                 THEN [answer |-> Answer("Found {n} projects: {titles}",
                                         <<Text(DecChars(Len(results)))>> \o titles),
                       calls |-> spent]
                 ELSE [answer |-> Answer("Found {n} projects: {titles}, and {m} more",
                                         <<Text(DecChars(Len(results)))>> \o titles
                                           \o <<Text(DecChars(Len(results) - 5))>>),
                       calls |-> spent]

(***************************************************************************)
(* The requests of a run.                                                  *)
(***************************************************************************)
BaseProject == [json |-> TRUE, title |-> Concat(Rep(" ", 1), Concat(Rep("T", 1), Rep(" ", 1))),
                description |-> Rep("D", 1), tech_stack |-> Text(<<"p", "y">>), github_url |-> Absent]

\* every field at its limit once stripped
FullProject == [json |-> TRUE, title |-> Concat(Rep(" ", 1), Concat(Rep("a", 200), Rep("\n", 1))),
                description |-> Rep("d", 2000), tech_stack |-> Rep("t", 300),
                github_url |-> Concat(Rep(" ", 2), Concat(Text(<<"h", "t", "t", "p">>), Rep("u", 296)))]

ProjectBodies ==
    {NoBody, BaseProject, FullProject}
    \cup {[BaseProject EXCEPT !.title = v] :
            v \in {Absent, None, <<>>, Rep(" ", 2), Rep("a", 201)}}
    \cup {[BaseProject EXCEPT !.description = v] : v \in {Absent, Rep("\t", 1), Rep("d", 2001)}}
    \cup {[BaseProject EXCEPT !.tech_stack = v] : v \in {Absent, Rep("t", 301)}}
    \cup {[BaseProject EXCEPT !.github_url = v] :
            v \in {None, Rep(" ", 1), Text(<<"f", "t", "p", ":", "/", "/", "x">>), Concat(Text(<<"h", "t", "t", "p">>), Rep("u", 297))}}

BaseContact == [json |-> TRUE, name |-> Concat(Rep(" ", 1), Rep("N", 1)),
                email |-> Text(<<"a", "@", "b">>), message |-> Rep("m", 1)]

\* every field at its limit once stripped
FullContact == [json |-> TRUE, name |-> Concat(Rep(" ", 1), Rep("n", 100)),
                email |-> Concat(Rep("e", 99), Concat(Rep("@", 1), Rep(" ", 3))),
                message |-> Rep("m", 1000)]

ContactBodies ==
    {NoBody, FullContact}
    \cup {[BaseContact EXCEPT !.name = v] : v \in {Absent, Rep(" ", 2), Rep("n", 101)}}
    \cup {[BaseContact EXCEPT !.email = v] :
            v \in {None, Text(<<"a", "b">>), Concat(Rep("e", 100), Rep("@", 1))}}
    \cup {[BaseContact EXCEPT !.message = v] : v \in {<<>>, Rep("m", 1001)}}

\* a request with the database up, and the accepted ones with it down as well
Requests(bodies, accepted) ==
    {[data |-> d, fault |-> FALSE] : d \in bodies}
    \cup {[data |-> d, fault |-> TRUE] : d \in accepted}

ProjectRequests == Requests(ProjectBodies, {BaseProject})
ContactRequests == Requests(ContactBodies, {FullContact})

PasswordBodies ==
    {NoBody} \cup {[json |-> TRUE, password |-> v] :
                     v \in {Absent, None, <<>>, ADMIN_PASSWORD,
                            Concat(Rep(" ", 1), ADMIN_PASSWORD),
                            Rep("x", 1), Rep(" ", 1)}}

Q_howmany == Text(<<"H", "o", "w", " ", "m", "a", "n", "y", " ", "p", "r", "o", "j", "e", "c", "t", "s", "?">>)

QuestionBodies ==
    {NoBody} \cup {[json |-> TRUE, question |-> v] :
                     v \in {Absent, Rep(" ", 3), Q_howmany,
                            Concat(Rep(" ", 1), Rep("q", 500)), Rep("q", 501)}}

\* the queries after `SQL:` in the EXAMPLES of the prompt, in its order
PromptExamples ==
    <<Text(<<"S", "E", "L", "E", "C", "T", " ", "C", "O", "U", "N", "T", "(", "*", ")", " ", "F", "R", "O", "M", " ", "p", "r", "o", "j", "e", "c", "t", "s">>),
      Text(<<"S", "E", "L", "E", "C", "T", " ", "t", "i", "t", "l", "e", ",", " ", "d", "e", "s", "c", "r", "i", "p", "t", "i", "o", "n", ",", " ", "t", "e", "c", "h", "_", "s", "t", "a", "c", "k", " ", "F", "R", "O", "M", " ", "p", "r", "o", "j", "e", "c", "t", "s", " ", "W", "H", "E", "R", "E", " ", "t", "e", "c", "h", "_", "s", "t", "a", "c", "k", " ", "I", "L", "I", "K", "E", " ", "'", "%", "P", "y", "t", "h", "o", "n", "%", "'">>),
      Text(<<"S", "E", "L", "E", "C", "T", " ", "t", "i", "t", "l", "e", ",", " ", "d", "e", "s", "c", "r", "i", "p", "t", "i", "o", "n", ",", " ", "t", "e", "c", "h", "_", "s", "t", "a", "c", "k", " ", "F", "R", "O", "M", " ", "p", "r", "o", "j", "e", "c", "t", "s", " ", "O", "R", "D", "E", "R", " ", "B", "Y", " ", "c", "r", "e", "a", "t", "e", "d", "_", "a", "t", " ", "D", "E", "S", "C", " ", "L", "I", "M", "I", "T", " ", "1">>),
      Text(<<"S", "E", "L", "E", "C", "T", " ", "t", "i", "t", "l", "e", ",", " ", "d", "e", "s", "c", "r", "i", "p", "t", "i", "o", "n", ",", " ", "t", "e", "c", "h", "_", "s", "t", "a", "c", "k", " ", "F", "R", "O", "M", " ", "p", "r", "o", "j", "e", "c", "t", "s">>),
      Text(<<"S", "E", "L", "E", "C", "T", " ", "C", "O", "U", "N", "T", "(", "*", ")", " ", "F", "R", "O", "M", " ", "p", "r", "o", "j", "e", "c", "t", "s", " ", "W", "H", "E", "R", "E", " ", "d", "e", "s", "c", "r", "i", "p", "t", "i", "o", "n", " ", "I", "L", "I", "K", "E", " ", "'", "%", "h", "a", "c", "k", "a", "t", "h", "o", "n", "%", "'", " ", "O", "R", " ", "t", "i", "t", "l", "e", " ", "I", "L", "I", "K", "E", " ", "'", "%", "h", "a", "c", "k", "a", "t", "h", "o", "n", "%", "'", " ", "O", "R", " ", "d", "e", "s", "c", "r", "i", "p", "t", "i", "o", "n", " ", "I", "L", "I", "K", "E", " ", "'", "%", "h", "a", "c", "k", "%", "'", " ", "O", "R", " ", "t", "i", "t", "l", "e", " ", "I", "L", "I", "K", "E", " ", "'", "%", "h", "a", "c", "k", "%", "'">>),
      Text(<<"S", "E", "L", "E", "C", "T", " ", "C", "O", "U", "N", "T", "(", "*", ")", " ", "F", "R", "O", "M", " ", "p", "r", "o", "j", "e", "c", "t", "s", " ", "W", "H", "E", "R", "E", " ", "(", "d", "e", "s", "c", "r", "i", "p", "t", "i", "o", "n", " ", "I", "L", "I", "K", "E", " ", "'", "%", "h", "a", "c", "k", "a", "t", "h", "o", "n", "%", "'", " ", "O", "R", " ", "t", "i", "t", "l", "e", " ", "I", "L", "I", "K", "E", " ", "'", "%", "h", "a", "c", "k", "a", "t", "h", "o", "n", "%", "'", " ", "O", "R", " ", "d", "e", "s", "c", "r", "i", "p", "t", "i", "o", "n", " ", "I", "L", "I", "K", "E", " ", "'", "%", "h", "a", "c", "k", "%", "'", " ", "O", "R", " ", "t", "i", "t", "l", "e", " ", "I", "L", "I", "K", "E", " ", "'", "%", "h", "a", "c", "k", "%", "'", ")", " ", "A", "N", "D", " ", "(", "d", "e", "s", "c", "r", "i", "p", "t", "i", "o", "n", " ", "I", "L", "I", "K", "E", " ", "'", "%", "w", "o", "n", "%", "'", " ", "O", "R", " ", "d", "e", "s", "c", "r", "i", "p", "t", "i", "o", "n", " ", "I", "L", "I", "K", "E", " ", "'", "%", "w", "i", "n", "n", "i", "n", "g", "%", "'", " ", "O", "R", " ", "d", "e", "s", "c", "r", "i", "p", "t", "i", "o", "n", " ", "I", "L", "I", "K", "E", " ", "'", "%", "w", "i", "n", "n", "e", "r", "%", "'", " ", "O", "R", " ", "d", "e", "s", "c", "r", "i", "p", "t", "i", "o", "n", " ", "I", "L", "I", "K", "E", " ", "'", "%", "a", "w", "a", "r", "d", "%", "'", " ", "O", "R", " ", "d", "e", "s", "c", "r", "i", "p", "t", "i", "o", "n", " ", "I", "L", "I", "K", "E", " ", "'", "%", "p", "r", "i", "z", "e", "%", "'", " ", "O", "R", " ", "d", "e", "s", "c", "r", "i", "p", "t", "i", "o", "n", " ", "I", "L", "I", "K", "E", " ", "'", "%", "f", "i", "r", "s", "t", " ", "p", "l", "a", "c", "e", "%", "'", " ", "O", "R", " ", "d", "e", "s", "c", "r", "i", "p", "t", "i", "o", "n", " ", "I", "L", "I", "K", "E", " ", "'", "%", "f", "i", "r", "s", "t", "%", "'", ")">>)>>

\* what a hosted model may reply when asked for a query
R_count == PromptExamples[1]
R_fenced == Text(<<Backtick, Backtick, Backtick, "s", "q", "l", "\n", "S", "E", "L", "E", "C", "T", " ", "t", "i", "t", "l", "e", " ", "F", "R", "O", "M", " ", "p", "r", "o", "j", "e", "c", "t", "s", ";", "\n", Backtick, Backtick, Backtick>>)
R_prefixed == Text(<<"S", "Q", "L", ":", " ", "s", "e", "l", "e", "c", "t", " ", "t", "i", "t", "l", "e", "\n", " ", " ", "f", "r", "o", "m", " ", "p", "r", "o", "j", "e", "c", "t", "s">>)
R_drop == Text(<<"D", "R", "O", "P", " ", "T", "A", "B", "L", "E", " ", "p", "r", "o", "j", "e", "c", "t", "s">>)
R_two == Text(<<"S", "E", "L", "E", "C", "T", " ", "t", "i", "t", "l", "e", " ", "F", "R", "O", "M", " ", "p", "r", "o", "j", "e", "c", "t", "s", ";", " ", "D", "R", "O", "P", " ", "T", "A", "B", "L", "E", " ", "p", "r", "o", "j", "e", "c", "t", "s">>)
R_recent == PromptExamples[3]
R_nofrom == Text(<<"S", "E", "L", "E", "C", "T", " ", "1">>)
R_prose == Text(<<"I", " ", "c", "a", "n", "n", "o", "t", " ", "a", "n", "s", "w", "e", "r", " ", "t", "h", "a", "t", ".">>)
R_after == Text(<<"S", "u", "r", "e", ":", " ", "D", "E", "L", "E", "T", "E", " ", "F", "R", "O", "M", " ", "p", "r", "o", "j", "e", "c", "t", "s", ";", " ", "S", "E", "L", "E", "C", "T", " ", "C", "O", "U", "N", "T", "(", "*", ")", " ", "F", "R", "O", "M", " ", "p", "r", "o", "j", "e", "c", "t", "s">>)
R_ilike == PromptExamples[2]
R_delete == Text(<<"D", "E", "L", "E", "T", "E", " ", "F", "R", "O", "M", " ", "p", "r", "o", "j", "e", "c", "t", "s">>)

SqlReplies == {R_count, R_fenced, R_prefixed, R_drop, R_two, R_recent, R_nofrom, R_prose,
               R_after, R_ilike, R_delete}
              \cup {PromptExamples[i] : i \in DOMAIN PromptExamples}

Fails == {Outcome(TRUE, None), Outcome(FALSE, None), Outcome(FALSE, Rep(" ", 2))}

\* the first model replies r
FirstReplies(r) == <<Outcome(FALSE, r), Outcome(TRUE, None)>>

\* a request with a question
Asked == [json |-> TRUE, question |-> Q_howmany]

\* the first model replies; or it fails and the second replies or fails
SqlOutcomes ==
    {FirstReplies(r) : r \in SqlReplies}
    \cup {<<f, Outcome(FALSE, R_count)>> : f \in Fails}
    \cup {<<Outcome(TRUE, None), Outcome(TRUE, None)>>}

\* what a hosted model may reply when asked to word the answer
FmtOutcomes ==
    {<<Outcome(TRUE, None), Outcome(TRUE, None)>>,
     <<Outcome(FALSE, Text(<<"T", "w", "o", ".">>)), Outcome(TRUE, None)>>,
     <<Outcome(TRUE, None), Outcome(FALSE, Text(<<"K", "o", "n", "s", "t", "a", "n", "t", "i", "n", " ", "h", "a", "s", " ", "b", "u", "i", "l", "t", " ", "i", "t", ".">>))>>}

NoAnswer == <<Outcome(TRUE, None), Outcome(TRUE, None)>>

ChatInput(data, importable, fault, sql_outs, fmt_outs) ==
    [data |-> data, importable |-> importable, fault |-> fault,
     sql_outs |-> sql_outs, fmt_outs |-> fmt_outs]

\* every body; one question without ai_helper; every reply of the models to
\* one question; every wording of the answer to two queries; the database
\* down for a query that is run and for one that is not
ChatInputs ==
    {ChatInput(d, TRUE, FALSE, FirstReplies(R_count), NoAnswer) : d \in QuestionBodies}
    \cup {ChatInput(d, FALSE, FALSE, FirstReplies(R_count), NoAnswer) : d \in {NoBody, Asked}}
    \cup {ChatInput(Asked, TRUE, FALSE, o, NoAnswer) : o \in SqlOutcomes}
    \cup {ChatInput(Asked, TRUE, FALSE, FirstReplies(r), f) :
            r \in {R_count, R_fenced}, f \in FmtOutcomes}
    \cup {ChatInput(Asked, TRUE, TRUE, FirstReplies(r), NoAnswer) : r \in {R_count, R_drop}}

(***************************************************************************)
(* POST /api/chat                                                          *)
(***************************************************************************)
HintAnswer == Answer("I can answer questions about Konstantin's portfolio projects. Try asking about specific projects, technologies used, or the number of projects.", <<>>)
TroubleAnswer == Answer("I had trouble with that question. Try: 'How many projects?' or 'List all projects'", <<>>)
NotConfiguredAnswer == Answer("AI chat is not configured. Please set HUGGINGFACE_API_KEY.", <<>>)
SorryAnswer == Answer("Sorry, I encountered an error. Please try again.", <<>>)

\* the calls of the hosted models, the first n of MODELS in its order: which
\* model was called and the content it completed with (None when it raised)
AiCalls(n, outs) ==
    [i \in 1..n |-> Ev(MODELS[i], IF outs[i].raises THEN None ELSE outs[i].content)]

\* create_sql_query for every reply of the run, worked out once
GeneratedSql == [cl \in BOOLEAN |-> [outs \in SqlOutcomes |-> create_sql_query(cl, outs)]]

\* a handler that opens the connection before it asks for the query
chat_try_connects_first(data, importable, fault, sql_outs, fmt_outs, cl, db) ==
    LET question == PyStrip(data.question)
        Generated(made) ==
            LET asked == <<Ev("create_sql_query", made.sql)>> \o AiCalls(made.calls, sql_outs)
                executed == asked \o <<Ev("connect", None), Ev("execute", made.sql)>>
                Executed(ran) ==
                    LET Formatted(formed) ==
                            Respond(200, [answer |-> formed.answer, sql_query |-> made.sql],
                                    ran.db,
                                    executed \o <<Ev("close", None),
                                                  Ev("format_sql_results", None)>>
                                             \o AiCalls(formed.calls, fmt_outs))
                    IN  IF ~ran.ok
                        THEN Respond(200, [answer |-> TroubleAnswer, sql_query |-> made.sql],
                                     ran.db, executed \o <<Ev("close", None)>>)
                        ELSE Once(Formatted,
                                  format_sql_results(question, ran.rows, None, cl, fmt_outs))
            IN  IF fault
                THEN Raise("OperationalError", db, asked \o <<Ev("connect_failed", None)>>)
                ELSE IF made.sql = None
                THEN Respond(200, [answer |-> HintAnswer, sql_query |-> None], db,
                             asked \o <<Ev("connect", None), Ev("close", None)>>)
                ELSE Once(Executed, sqlite_execute(Chars(made.sql), db))
    IN  IF ~importable THEN Raise("ImportError", db, <<>>)
        ELSE IF ~HasBody(data) THEN Raise("AttributeError", db, <<>>)
        ELSE IF MissingField(data, "question")
        THEN Respond(400, [error |-> "Question is required"], db, <<>>)
        ELSE IF PyLen(question) > 500
        THEN Respond(400, [error |-> "Question too long"], db, <<>>)
        ELSE Once(Generated, GeneratedSql[cl][sql_outs])

\* a handler that does not look at the length of the question
chat_try_any_length(data, importable, fault, sql_outs, fmt_outs, cl, db) ==
    LET question == PyStrip(data.question)
        Generated(made) ==
            LET asked == <<Ev("create_sql_query", made.sql)>> \o AiCalls(made.calls, sql_outs)
                executed == asked \o <<Ev("connect", None), Ev("execute", made.sql)>>
                Executed(ran) ==
                    LET Formatted(formed) ==
                            Respond(200, [answer |-> formed.answer, sql_query |-> made.sql],
                                    ran.db,
                                    executed \o <<Ev("close", None),
                                                  Ev("format_sql_results", None)>>
                                             \o AiCalls(formed.calls, fmt_outs))
                    IN  IF ~ran.ok
                        THEN Respond(200, [answer |-> TroubleAnswer, sql_query |-> made.sql],
                                     ran.db, executed \o <<Ev("close", None)>>)
                        ELSE Once(Formatted,
                                  format_sql_results(question, ran.rows, None, cl, fmt_outs))
            IN  IF made.sql = None
                THEN Respond(200, [answer |-> HintAnswer, sql_query |-> None], db, asked)
                ELSE IF fault
                THEN Raise("OperationalError", db, asked \o <<Ev("connect_failed", None)>>)
                ELSE Once(Executed, sqlite_execute(Chars(made.sql), db))
    IN  IF ~importable THEN Raise("ImportError", db, <<>>)
        ELSE IF ~HasBody(data) THEN Raise("AttributeError", db, <<>>)
        ELSE IF MissingField(data, "question")
        THEN Respond(400, [error |-> "Question is required"], db, <<>>)
        ELSE Once(Generated, GeneratedSql[cl][sql_outs])

\* importable: `from ai_helper import ...` succeeds; sql_outs, fmt_outs: what
\* the hosted models do when asked for the query and for the answer
chat_try(data, importable, fault, sql_outs, fmt_outs, cl, db) ==
    LET question == PyStrip(data.question)
        Generated(made) ==
            LET asked == <<Ev("create_sql_query", made.sql)>> \o AiCalls(made.calls, sql_outs)
                executed == asked \o <<Ev("connect", None), Ev("execute", made.sql)>>
                Executed(ran) ==
                    LET Formatted(formed) ==
                            Respond(200, [answer |-> formed.answer, sql_query |-> made.sql],
                                    ran.db,
                                    executed \o <<Ev("close", None),
                                                  Ev("format_sql_results", None)>>
                                             \o AiCalls(formed.calls, fmt_outs))
                    IN  IF ~ran.ok
                        THEN Respond(200, [answer |-> TroubleAnswer, sql_query |-> made.sql],
                                     ran.db, executed \o <<Ev("close", None)>>)
                        ELSE Once(Formatted,
                                  format_sql_results(question, ran.rows, None, cl, fmt_outs))
            IN  IF made.sql = None
                THEN Respond(200, [answer |-> HintAnswer, sql_query |-> None], db, asked)
                ELSE IF fault
                THEN Raise("OperationalError", db, asked \o <<Ev("connect_failed", None)>>)
                ELSE Once(Executed, sqlite_execute(Chars(made.sql), db))
    IN  IF ~importable THEN Raise("ImportError", db, <<>>)
        ELSE IF ~HasBody(data) THEN Raise("AttributeError", db, <<>>)
        ELSE IF MissingField(data, "question")
        THEN Respond(400, [error |-> "Question is required"], db, <<>>)
        ELSE IF PyLen(question) > 500
        THEN Respond(400, [error |-> "Question too long"], db, <<>>)
        ELSE Once(Generated, GeneratedSql[cl][sql_outs])

\* the handler without its except clauses
chat_uncaught(data, importable, fault, sql_outs, fmt_outs, cl, db) ==
    chat_try(data, importable, fault, sql_outs, fmt_outs, cl, db)

\* `except ImportError` and `except Exception`: both answer 200
chat(data, importable, fault, sql_outs, fmt_outs, cl, db) ==
    LET Caught(r) ==
            IF r.raised /\ r.exc = "ImportError"
            THEN ExceptException(r, 200, [answer |-> NotConfiguredAnswer, sql_query |-> None])
            ELSE ExceptException(r, 200, [answer |-> SorryAnswer, sql_query |-> None])
    IN  Once(Caught, chat_try(data, importable, fault, sql_outs, fmt_outs, cl, db))

(***************************************************************************)
(* The state machine: one action per route, and the start of the app.      *)
(***************************************************************************)
Request(ep, data, id) == [ep |-> ep, data |-> data, id |-> id]

Init ==
    /\ projects = {}
    /\ contacts = {}
    /\ seq = [projects |-> 0, contacts |-> 0]
    /\ schema = Schema
    /\ DATABASE_URL \in {"", "postgresql://db"}
    /\ client \in BOOLEAN
    /\ req = Request("start", NoBody, 0)
    /\ resp = [status |-> 0, body |-> [error |-> ""], exc |-> "", raised |-> FALSE]
    /\ trace = <<>>
    /\ submitted = <<>>

\* the handler's result r becomes the response to rq
Finish(rq, r) ==
    /\ projects' = r.db.projects
    /\ contacts' = r.db.contacts
    /\ seq' = r.db.seq
    /\ schema' = r.db.schema
    /\ req' = rq
    /\ resp' = [status |-> r.status, body |-> r.body, exc |-> r.exc, raised |-> r.raised]
    /\ trace' = r.trace
    /\ submitted' =
            IF rq.ep = "POST /api/projects" /\ r.status = 201
            THEN (r.body.project_id :> rq.data) @@ submitted
            ELSE IF rq.ep = "DELETE /api/projects" /\ r.status = 200
            THEN [p \in DOMAIN submitted \ {rq.id} |-> submitted[p]]
            ELSE submitted
    /\ UNCHANGED <<DATABASE_URL, client>>

\* `with app.app_context(): init_db()` when the app (re)starts
InitDb ==
    /\ req.ep # "start"
    /\ \E r \in {Respond(0, [error |-> ""], init_db(DB), <<>>)} :
            Finish(Request("start", NoBody, 0), r)

GetProjects ==
    \E fault \in BOOLEAN :
        \E r \in {get_projects(fault, DB)} :
            Finish(Request("GET /api/projects", NoBody, 0), r)

CreateProject ==
    /\ seq.projects < MaxProjects
    /\ \E input \in ProjectRequests :
        \E r \in {create_project(input.data, input.fault, DB, DATABASE_URL)} :
            Finish(Request("POST /api/projects", input.data, 0), r)

DeleteProject ==
    \E project_id \in 0..(MaxProjects + 1), fault \in BOOLEAN :
        \E r \in {delete_project(project_id, fault, DB, DATABASE_URL)} :
            Finish(Request("DELETE /api/projects", NoBody, project_id), r)

SubmitContact ==
    /\ seq.contacts < MaxContacts
    /\ \E input \in ContactRequests :
        \E r \in {submit_contact(input.data, input.fault, DB, DATABASE_URL)} :
            Finish(Request("POST /api/contact", input.data, 0), r)

VerifyAdmin ==
    \E data \in PasswordBodies :
        \E r \in {verify_admin(data, DB)} :
            Finish(Request("POST /api/admin/verify", data, 0), r)

Chat ==
    \E input \in ChatInputs :
        \E r \in {chat(input.data, input.importable, input.fault, input.sql_outs, input.fmt_outs,
                       client, DB)} :
            Finish(Request("POST /api/chat", input.data, 0), r)

HealthCheck ==
    \E r \in {health_check(DB)} :
        Finish(Request("GET /api/health", NoBody, 0), r)

Next ==
    \/ InitDb
    \/ GetProjects
    \/ CreateProject
    \/ DeleteProject
    \/ SubmitContact
    \/ VerifyAdmin
    \/ Chat
    \/ HealthCheck

Spec == Init /\ [][Next]_vars

(***************************************************************************)
(* ai_helper: calendar dates (datetime.date) and the dates of questions    *)
(* and rows.  Questions and stored dates are plain character sequences.    *)
(***************************************************************************)
\* what stands for "no date": None, or the ValueError of date()
NoDate == [y |-> 0, m |-> 0, d |-> 0]

\* datetime.date(y, m, d): years 1 (MINYEAR) to 9999 (MAXYEAR), a day of the
\* month; NoDate where Python raises ValueError
date(y, m, d) ==
    LET leap == y % 4 = 0 /\ (y % 100 # 0 \/ y % 400 = 0)
        days == IF m = 2 THEN (IF leap THEN 29 ELSE 28)
                ELSE IF m \in {4, 6, 9, 11} THEN 30 ELSE 31
    IN  IF y \in 1..9999 /\ m \in 1..12 /\ d \in 1..days
        THEN [y |-> y, m |-> m, d |-> d] ELSE NoDate

\* a < b on dates
DateLt(a, b) ==
    \/ a.y < b.y
    \/ a.y = b.y /\ a.m < b.m
    \/ a.y = b.y /\ a.m = b.m /\ a.d < b.d

\* cs[i .. i+n-1] exists and holds digits only
DigitsAt(cs, i, n) ==
    /\ i >= 1 /\ i + n - 1 <= Len(cs)
    /\ \A j \in i..(i + n - 1) : \E v \in DOMAIN Digits : cs[j] = Digits[v]

\* int(cs[i .. i+n-1]) for decimal digits
RECURSIVE IntAt(_, _, _)
IntAt(cs, i, n) ==
    IF n = 0 THEN 0
    ELSE IntAt(cs, i, n - 1) * 10
         + (CHOOSE v \in 0..9 : Digits[v + 1] = cs[i + n - 1])

\* date.isoformat(): YYYY-MM-DD
isoformat(dt) ==
    LET TwoDigits(n) == <<Digits[(n \div 10) + 1], Digits[(n % 10) + 1]>>
    IN
    <<Digits[(dt.y \div 1000) + 1], Digits[((dt.y \div 100) % 10) + 1],
      Digits[((dt.y \div 10) % 10) + 1], Digits[(dt.y % 10) + 1], "-">>
    \o TwoDigits(dt.m) \o <<"-">> \o TwoDigits(dt.d)

\* _parse_dateish for a string: date.fromisoformat of the first ten
\* characters of the stripped value (YYYY-MM-DD), NoDate for None
parse_dateish(value) ==
    LET s == StripChars(value)
        s10 == SubSeq(s, 1, IF Len(s) < 10 THEN Len(s) ELSE 10)
    IN  IF /\ Len(s10) = 10
           /\ DigitsAt(s10, 1, 4) /\ s10[5] = "-"
           /\ DigitsAt(s10, 6, 2) /\ s10[8] = "-"
           /\ DigitsAt(s10, 9, 2)
        THEN date(IntAt(s10, 1, 4), IntAt(s10, 6, 2), IntAt(s10, 9, 2))
        ELSE NoDate

\* _MONTHS
MONTHS ==
    (<<"j", "a", "n">> :> 1) @@
    (<<"j", "a", "n", "u", "a", "r", "y">> :> 1) @@
    (<<"f", "e", "b">> :> 2) @@
    (<<"f", "e", "b", "r", "u", "a", "r", "y">> :> 2) @@
    (<<"m", "a", "r">> :> 3) @@
    (<<"m", "a", "r", "c", "h">> :> 3) @@
    (<<"a", "p", "r">> :> 4) @@
    (<<"a", "p", "r", "i", "l">> :> 4) @@
    (<<"m", "a", "y">> :> 5) @@
    (<<"j", "u", "n">> :> 6) @@
    (<<"j", "u", "n", "e">> :> 6) @@
    (<<"j", "u", "l">> :> 7) @@
    (<<"j", "u", "l", "y">> :> 7) @@
    (<<"a", "u", "g">> :> 8) @@
    (<<"a", "u", "g", "u", "s", "t">> :> 8) @@
    (<<"s", "e", "p">> :> 9) @@
    (<<"s", "e", "p", "t">> :> 9) @@
    (<<"s", "e", "p", "t", "e", "m", "b", "e", "r">> :> 9) @@
    (<<"o", "c", "t">> :> 10) @@
    (<<"o", "c", "t", "o", "b", "e", "r">> :> 10) @@
    (<<"n", "o", "v">> :> 11) @@
    (<<"n", "o", "v", "e", "m", "b", "e", "r">> :> 11) @@
    (<<"d", "e", "c">> :> 12) @@
    (<<"d", "e", "c", "e", "m", "b", "e", "r">> :> 12)

\* (start, end) of a month; raised when date() raises ValueError
month_range(year, month) ==
    LET start == date(year, month, 1)
        end == IF month = 12 THEN date(year + 1, 1, 1) ELSE date(year, month + 1, 1)
    IN  [raised |-> start = NoDate \/ end = NoDate, start |-> start, end |-> end]

\* \b of a regular expression between cs[i-1] and cs[i]
Boundary(cs, i) ==
    (i > 1 /\ cs[i - 1] \in WordChars) # (i <= Len(cs) /\ cs[i] \in WordChars)

\* the letters a-z of cs from position i on
RECURSIVE LettersAt(_, _)
LettersAt(cs, i) ==
    IF i <= Len(cs) /\ cs[i] \in DOMAIN ToUpper THEN <<cs[i]>> \o LettersAt(cs, i + 1)
    ELSE <<>>

\* what _extract_date_range gives: none (None), raised (ValueError), or the
\* range [start, end) with its label
NoRange == [none |-> TRUE, raised |-> FALSE, start |-> NoDate, end |-> NoDate, label |-> <<>>]

extract_date_range(question) ==
    LET q == PyLower(question)
        sep == {"-", "/"}
        \* the first match is the leftmost one
        First(at) == CHOOSE i \in at : \A j \in at : i <= j
        \* f"{month:02d}"
        TwoDigits(n) == <<Digits[(n \div 10) + 1], Digits[(n % 10) + 1]>>
        DateRange(r, label) ==
            [none |-> FALSE, raised |-> r.raised, start |-> r.start, end |-> r.end,
             label |-> IF r.raised THEN <<>> ELSE label]
        \* \b([a-z]{3,9})\s+(\d{4})\b at i: the digits start at year1(i)
        year1(i) == SkipSpace(q, i + Len(LettersAt(q, i)))
        hit1(i) == /\ Boundary(q, i)
                   /\ Len(LettersAt(q, i)) \in 3..9
                   /\ year1(i) > i + Len(LettersAt(q, i))
                   /\ DigitsAt(q, year1(i), 4)
                   /\ Boundary(q, year1(i) + 4)
        at1 == {i \in 1..Len(q) : hit1(i)}
        \* \b(\d{4})[-/](\d{1,2})\b at i: the month has len2(i) digits
        len2(i) == IF DigitsAt(q, i + 5, 2) /\ Boundary(q, i + 7) THEN 2 ELSE 1
        hit2(i) == /\ Boundary(q, i)
                   /\ DigitsAt(q, i, 4)
                   /\ i + 4 <= Len(q) /\ q[i + 4] \in sep
                   /\ DigitsAt(q, i + 5, len2(i))
                   /\ Boundary(q, i + 5 + len2(i))
        at2 == {i \in 1..Len(q) : hit2(i)}
        \* \b(\d{1,2})[/-](\d{4})\b at i: the month has len3(i) digits
        len3(i) == IF DigitsAt(q, i, 2) THEN 2 ELSE 1
        hit3(i) == /\ Boundary(q, i)
                   /\ DigitsAt(q, i, len3(i))
                   /\ i + len3(i) <= Len(q) /\ q[i + len3(i)] \in sep
                   /\ DigitsAt(q, i + len3(i) + 1, 4)
                   /\ Boundary(q, i + len3(i) + 5)
        at3 == {i \in 1..Len(q) : hit3(i)}
        \* \b(in\s+)?(\d{4})\b at i: the digits start at year4(i)
        year4(i) == IF /\ MatchAt(q, i, <<"i", "n">>)
                       /\ SkipSpace(q, i + 2) > i + 2
                       /\ DigitsAt(q, SkipSpace(q, i + 2), 4)
                       /\ Boundary(q, SkipSpace(q, i + 2) + 4)
                    THEN SkipSpace(q, i + 2) ELSE i
        hit4(i) == /\ Boundary(q, i)
                   /\ DigitsAt(q, year4(i), 4)
                   /\ Boundary(q, year4(i) + 4)
        at4 == {i \in 1..Len(q) : hit4(i)}
        word == LettersAt(q, First(at1))
        month2 == IntAt(q, First(at2) + 5, len2(First(at2)))
        year2 == IntAt(q, First(at2), 4)
        month3 == IntAt(q, First(at3), len3(First(at3)))
        year3 == IntAt(q, First(at3) + len3(First(at3)) + 1, 4)
        year == IntAt(q, year4(First(at4)), 4)
        whole == [raised |-> date(year, 1, 1) = NoDate \/ date(year + 1, 1, 1) = NoDate,
                  start |-> date(year, 1, 1), end |-> date(year + 1, 1, 1)]
    IN  IF at1 # {} /\ word \in DOMAIN MONTHS
        THEN DateRange(month_range(IntAt(q, year1(First(at1)), 4), MONTHS[word]),
                       <<UpperChar(word[1])>> \o Tail(word) \o <<" ">>
                       \o DecChars(IntAt(q, year1(First(at1)), 4)))
        ELSE IF at2 # {} /\ month2 \in 1..12
        THEN DateRange(month_range(year2, month2),
                       DecChars(year2) \o <<"-">> \o TwoDigits(month2))
        ELSE IF at3 # {} /\ month3 \in 1..12
        THEN DateRange(month_range(year3, month3),
                       DecChars(year3) \o <<"-">> \o TwoDigits(month3))
        ELSE IF at4 # {}
        THEN DateRange(whole, DecChars(year))
        ELSE NoRange

(***************************************************************************)
(* ai_helper.fetch_projects and ai_helper.answer_portfolio_question, on a  *)
(* connection to the SQLite file.  A row of the table is a record of its   *)
(* columns; its texts are plain character sequences here.                  *)
(***************************************************************************)
\* the schema entry of a project_date column added to the table after init_db
\* (ALTER TABLE projects ADD COLUMN project_date, by a migration run on the file)
ProjectDateColumn == "projects.project_date"

\* SQL NULL in a text column
Null == <<"NULL">>

\* _safe_str
safe_str(v) == IF v = Null THEN <<>> ELSE v

\* a < b for texts, as SQLite compares them (by character code); the
\* characters of a CURRENT_TIMESTAMP value in the order of their codes
RECURSIVE TextLt(_, _)
TextLt(a, b) ==
    LET Collation == <<" ", "-", "0", "1", "2", "3", "4", "5", "6", "7", "8", "9", ":">>
        code(c) == CHOOSE k \in DOMAIN Collation : Collation[k] = c
    IN  IF b = <<>> THEN FALSE
        ELSE IF a = <<>> THEN TRUE
        ELSE IF a[1] # b[1] THEN code(a[1]) < code(b[1])
        ELSE TextLt(Tail(a), Tail(b))

\* the elements of a set as a sequence, in some order
RECURSIVE SeqOf(_)
SeqOf(S) ==
    IF S = {} THEN <<>>
    ELSE LET x == CHOOSE r \in S : TRUE
         IN  <<x>> \o SeqOf(S \ {x})

\* the rows of fetch_projects in the order of ORDER BY created_at DESC, id DESC,
\* as dictionaries; raised when SQLite raises OperationalError (no such table,
\* no such column)
fetch_projects(db) ==
    LET selected == {"id", "title", "description", "tech_stack", "project_date", "created_at"}
        \* the columns of the projects table that init_db creates (db.py 61-70)
        ProjectColumns == {"id", "title", "description", "tech_stack", "github_url", "created_at"}
        columns == ProjectColumns \cup
                   (IF ProjectDateColumn \in db.schema THEN {"project_date"} ELSE {})
        before(a, b) == \/ a.created_at = b.created_at /\ a.id > b.id
                        \/ a.created_at # b.created_at /\ TextLt(b.created_at, a.created_at)
        dict(r) == [id |-> r.id, title |-> safe_str(r.title),
                    description |-> safe_str(r.description),
                    tech_stack |-> safe_str(r.tech_stack),
                    project_date |-> safe_str(r.project_date),
                    created_at |-> safe_str(r.created_at)]
        Ordered(rows) ==
            LET place(i) == 1 + Cardinality({j \in DOMAIN rows : before(rows[j], rows[i])})
                Put(places) ==
                    [k \in DOMAIN rows |->
                        dict(rows[CHOOSE i \in DOMAIN rows : places[i] = k])] \o <<>>
            IN  Once(Put, [i \in DOMAIN rows |-> place(i)] \o <<>>)
    IN  IF "projects" \notin db.schema \/ ~(selected \subseteq columns)
        THEN [raised |-> TRUE, projects |-> <<>>]
        ELSE [raised |-> FALSE, projects |-> Once(Ordered, SeqOf(db.projects))]

\* what answer_portfolio_question gives: (answer, debug), or an exception
Answered(answer, debug) == [raised |-> FALSE, exc |-> "", answer |-> answer, debug |-> debug]
Raised(exc) == [raised |-> TRUE, exc |-> exc, answer |-> Answer("", <<>>), debug |-> <<>>]

\* matched_projects[:15]
ListLimit == 15

\* a date-range branch that takes the end of the range in: start <= pd <= end
DateBranch_closed(rows, range, debug) ==
    LET own(p) == parse_dateish(p.project_date)
        pd(p) == IF own(p) = NoDate THEN parse_dateish(p.created_at) ELSE own(p)
        missing_project_date == Cardinality({i \in DOMAIN rows : own(rows[i]) = NoDate})
        \* dates[i] is pd of rows[i]
        Dated(dates) ==
            LET inside(i) == /\ dates[i] # NoDate
                             /\ ~DateLt(dates[i], range.start)
                             /\ ~DateLt(range.end, dates[i])
                place(i) == 1 + Cardinality({j \in DOMAIN rows :
                                /\ inside(j)
                                /\ \/ DateLt(dates[j], dates[i])
                                   \/ dates[j] = dates[i] /\ j < i})
                \* places[i] is where rows[i] is in matched_projects, 0: not in it
                Sorted(places) ==
                    LET count == Cardinality({i \in DOMAIN rows : places[i] > 0})
                        shown == IF count > ListLimit THEN ListLimit ELSE count
                        at(k) == CHOOSE i \in DOMAIN rows : places[i] = k
                        line(i) == [title |-> rows[i].title, date |-> isoformat(dates[i]),
                                    tech |-> rows[i].tech_stack]
                        found == debug @@ [date_label |-> range.label,
                                           date_matches |-> count,
                                           projects_missing_project_date |-> missing_project_date]
                    IN  IF count = 0
                        THEN Answered(Answer("No projects were found in {label}.{note}",
                                             <<range.label, missing_project_date>>), found)
                        ELSE Answered(Answer("Projects in {label}:",
                                             <<range.label,
                                               [k \in 1..shown |-> line(at(k))] \o <<>>,
                                               IF count > ListLimit
                                               THEN <<count - ListLimit>> ELSE <<>>
                                             >>), found)
            IN  Once(Sorted, [i \in DOMAIN rows |-> IF inside(i) THEN place(i) ELSE 0] \o <<>>)
    IN  Once(Dated, [i \in DOMAIN rows |-> pd(rows[i])] \o <<>>)

\* the date-range branch: the rows whose date is in [range.start, range.end),
\* sorted by that date (list.sort is stable), and the answer made of them
DateBranch(rows, range, debug) ==
    LET own(p) == parse_dateish(p.project_date)
        pd(p) == IF own(p) = NoDate THEN parse_dateish(p.created_at) ELSE own(p)
        missing_project_date == Cardinality({i \in DOMAIN rows : own(rows[i]) = NoDate})
        \* dates[i] is pd of rows[i]
        Dated(dates) ==
            LET inside(i) == /\ dates[i] # NoDate
                             /\ ~DateLt(dates[i], range.start)
                             /\ DateLt(dates[i], range.end)
                place(i) == 1 + Cardinality({j \in DOMAIN rows :
                                /\ inside(j)
                                /\ \/ DateLt(dates[j], dates[i])
                                   \/ dates[j] = dates[i] /\ j < i})
                \* places[i] is where rows[i] is in matched_projects, 0: not in it
                Sorted(places) ==
                    LET count == Cardinality({i \in DOMAIN rows : places[i] > 0})
                        shown == IF count > ListLimit THEN ListLimit ELSE count
                        at(k) == CHOOSE i \in DOMAIN rows : places[i] = k
                        line(i) == [title |-> rows[i].title, date |-> isoformat(dates[i]),
                                    tech |-> rows[i].tech_stack]
                        found == debug @@ [date_label |-> range.label,
                                           date_matches |-> count,
                                           projects_missing_project_date |-> missing_project_date]
                    IN  IF count = 0
                        THEN Answered(Answer("No projects were found in {label}.{note}",
                                             <<range.label, missing_project_date>>), found)
                        ELSE Answered(Answer("Projects in {label}:",
                                             <<range.label,
                                               [k \in 1..shown |-> line(at(k))] \o <<>>,
                                               IF count > ListLimit
                                               THEN <<count - ListLimit>> ELSE <<>>
                                             >>), found)
            IN  Once(Sorted, [i \in DOMAIN rows |-> IF inside(i) THEN place(i) ELSE 0] \o <<>>)
    IN  Once(Dated, [i \in DOMAIN rows |-> pd(rows[i])] \o <<>>)

\* (answer, debug) of answer_portfolio_question, or the exception it raises.
\* The branches after the date range (hackathons, most recent, lists, counts,
\* technologies, one project, the model's wording) read projects and the
\* question and return an answer; they are one answer here.
answer_portfolio_question(user_question, db) ==
    LET question == JoinSplit(user_question)
        ql == PyLower(question)
        \* the words that make the chat refuse to answer (it is read-only)
        Modifying ==
            {<<"d", "e", "l", "e", "t", "e", " ">>,
             <<"r", "e", "m", "o", "v", "e", " ">>,
             <<"d", "r", "o", "p", " ">>,
             <<"t", "r", "u", "n", "c", "a", "t", "e">>,
             <<"i", "n", "s", "e", "r", "t", " ">>,
             <<"u", "p", "d", "a", "t", "e", " ">>,
             <<"a", "l", "t", "e", "r", " ">>,
             <<"c", "r", "e", "a", "t", "e", " ", "t", "a", "b", "l", "e">>,
             <<"a", "d", "d", " ", "p", "r", "o", "j", "e", "c", "t">>}
        \* the words that, with a date, make a question one about dates
        DateWords ==
            {<<"p", "r", "o", "j", "e", "c", "t">>,
             <<"p", "r", "o", "j", "e", "c", "t", "s">>,
             <<"b", "u", "i", "l", "t">>,
             <<"m", "a", "d", "e">>,
             <<"c", "r", "e", "a", "t", "e", "d">>,
             <<"i", "n", " ">>}
        AnyIn(kws) == \E kw \in kws : PyIn(kw, ql)
        LaterBranches(debug) == Answered(Answer("{later branches}", <<>>), debug)
        With(f) ==
            LET debug == [projects_total |-> Len(f.projects)]
                Ranged(range) ==
                    IF range.raised THEN Raised("ValueError")
                    ELSE IF ~range.none /\ AnyIn(DateWords)
                    THEN DateBranch(f.projects, range, debug)
                    ELSE LaterBranches(debug)
            IN  IF f.raised THEN Raised("OperationalError")
                ELSE IF question = <<>>
                THEN Answered(Answer("Ask a question about the portfolio projects (tech, hackathons, or a specific project).", <<>>), debug)
                ELSE IF f.projects = <<>>
                THEN Answered(Answer("No projects are currently listed in the portfolio database.", <<>>), debug)
                ELSE IF AnyIn(Modifying)
                THEN Answered(Answer("The chat assistant is read-only and can only answer questions about {_CANDIDATE_NAME}'s portfolio projects.", <<>>), debug)
                ELSE Once(Ranged, extract_date_range(question))
    IN  Once(With, fetch_projects(db))

(***************************************************************************)
(* answer_portfolio_question and _extract_date_range at work: a caller     *)
(* with a connection to the database file asks questions while rows are    *)
(* stored in the table.                                                    *)
(***************************************************************************)
MaxRows == 19          \* rows stored in a run

\* the questions given to _extract_date_range
DateQuestions ==
    LET DatePhrases ==
            {<<"o", "c", "t", "o", "b", "e", "r", " ", "2", "0", "2", "5">>,
             <<"O", "c", "t", " ", "2", "0", "2", "5">>,
             <<"s", "e", "p", "t", " ", "2", "0", "2", "4">>,
             <<"D", "e", "c", "e", "m", "b", "e", "r", " ", "2", "0", "2", "5">>,
             <<"d", "e", "c", " ", "9", "9", "9", "9">>,
             <<"j", "a", "n", " ", "0", "0", "0", "0">>,
             <<"j", "a", "n", " ", "0", "0", "0", "1">>,
             <<"f", "o", "o", " ", "2", "0", "2", "5">>,
             <<"2", "0", "2", "5", "-", "1", "0">>,
             <<"2", "0", "2", "5", "/", "7">>,
             <<"2", "0", "2", "5", "-", "1", "2">>,
             <<"9", "9", "9", "9", "-", "1", "2">>,
             <<"2", "0", "2", "5", "-", "1", "3">>,
             <<"2", "0", "2", "5", "-", "0">>,
             <<"0", "0", "0", "0", "-", "0", "5">>,
             <<"1", "0", "/", "2", "0", "2", "5">>,
             <<"1", "2", "-", "2", "0", "2", "5">>,
             <<"1", "3", "/", "2", "0", "2", "5">>,
             <<"1", "/", "0", "0", "0", "0">>,
             <<"1", "2", "/", "9", "9", "9", "9">>,
             <<"2", "0", "2", "5">>,
             <<"0", "0", "0", "0">>,
             <<"9", "9", "9", "9">>,
             <<"0", "0", "0", "1">>,
             <<"1", "2", "3", "4", "5">>,
             <<"l", "a", "s", "t", " ", "y", "e", "a", "r">>,
             <<"o", "c", "t", "o", "b", "e", "r">>,
             <<"x", "_", "o", "c", "t", " ", "2", "0", "2", "5">>,
             <<"2", "0", "2", "5", "-", "1", "0", "-", "1", "5">>,
             <<"2", "0", "2", "5", "/", "1", "0", "/", "3">>,
             <<"f", "e", "b", " ", "2", "0", "2", "4">>,
             <<"1", "9", "9", "9">>,
             <<"1", "9", "9", "9", " ", "a", "n", "d", " ", "i", "n", " ", "2", "0", "0", "1">>,
             <<"M", "a", "y", " ", "2", "0", "2", "3">>,
             <<"3", "-", "2", "0", "2", "1">>}
    IN  {lead \o phrase : lead \in {<<>>, <<"i", "n", " ">>, <<"P", "r", "o", "j", "e", "c", "t", "s", " ", "b", "u", "i", "l", "t", " ", "i", "n", " ">>}, phrase \in DatePhrases}

\* the questions given to answer_portfolio_question
AskQuestions ==
    {<<>>,
     <<" ", " ">>,
     <<"p", "r", "o", "j", "e", "c", "t", "s", " ", "i", "n", " ", "o", "c", "t", "o", "b", "e", "r", " ", "2", "0", "2", "5">>,
     <<"P", "r", "o", "j", "e", "c", "t", "s", " ", " ", "b", "u", "i", "l", "t", " ", "i", "n", " ", "2", "0", "2", "5", "-", "1", "0">>,
     <<"1", "0", "/", "2", "0", "2", "5", " ", "p", "r", "o", "j", "e", "c", "t", "s">>,
     <<"w", "h", "a", "t", " ", "w", "a", "s", " ", "m", "a", "d", "e", " ", "i", "n", " ", "2", "0", "2", "4">>,
     <<"p", "r", "o", "j", "e", "c", "t", "s", " ", "i", "n", " ", "D", "e", "c", "e", "m", "b", "e", "r", " ", "2", "0", "2", "5">>,
     <<"p", "r", "o", "j", "e", "c", "t", "s", " ", "i", "n", " ", "s", "e", "p", "t", " ", "2", "0", "2", "4">>,
     <<"2", "0", "2", "5">>,
     <<"o", "c", "t", "o", "b", "e", "r", " ", "2", "0", "2", "5">>,
     <<"p", "r", "o", "j", "e", "c", "t", "s", " ", "i", "n", " ", "9", "9", "9", "9">>,
     <<"p", "r", "o", "j", "e", "c", "t", "s", " ", "c", "r", "e", "a", "t", "e", "d", " ", "i", "n", " ", "0", "0", "0", "0">>,
     <<"d", "e", "l", "e", "t", "e", " ", "p", "r", "o", "j", "e", "c", "t", "s", " ", "i", "n", " ", "2", "0", "2", "5">>,
     <<"u", "p", "d", "a", "t", "e", " ", "t", "h", "e", " ", "p", "r", "o", "j", "e", "c", "t", " ", "o", "f", " ", "o", "c", "t", "o", "b", "e", "r", " ", "2", "0", "2", "5">>,
     <<"w", "h", "i", "c", "h", " ", "p", "r", "o", "j", "e", "c", "t", "s", " ", "u", "s", "e", " ", "p", "y", "t", "h", "o", "n">>,
     <<"p", "r", "o", "j", "e", "c", "t", "s", " ", "i", "n", " ", "2", "0", "2", "5">>,
     <<"w", "h", "i", "c", "h", " ", "p", "r", "o", "j", "e", "c", "t", "s", " ", "c", "a", "n", " ", "i", " ", "d", "e", "l", "e", "t", "e">>,
     <<"u", "p", "d", "a", "t", "e", "d", " ", "p", "r", "o", "j", "e", "c", "t", "s", " ", "i", "n", " ", "2", "0", "2", "5">>}

\* the i-th row stored; it has a project_date where the table has the column
StoredRow(i, dated) ==
    LET \* project_date and created_at of the first rows stored; the later rows
        \* are dated on the days of October 2025, the later row on the earlier day
        EarlyDates ==
            <<<<<<"2", "0", "2", "5", "-", "1", "1", "-", "0", "1">>, <<"2", "0", "2", "5", "-", "1", "0", "-", "0", "5", " ", "1", "0", ":", "0", "0", ":", "0", "0">>>>,
              <<<<>>, <<"2", "0", "2", "5", "-", "1", "0", "-", "3", "1", " ", "2", "3", ":", "5", "9", ":", "5", "9">>>>,
              <<Null, <<"2", "0", "2", "5", "-", "1", "1", "-", "0", "2", " ", "0", "8", ":", "0", "0", ":", "0", "0">>>>,
              <<<<"2", "0", "2", "5", "-", "1", "0", "-", "0", "1">>, <<"2", "0", "2", "4", "-", "0", "1", "-", "0", "1", " ", "0", "0", ":", "0", "0", ":", "0", "0">>>>,
              <<<<"2", "0", "2", "5", "-", "0", "2", "-", "3", "0">>, <<"2", "0", "2", "5", "-", "1", "0", "-", "1", "0", " ", "0", "9", ":", "3", "0", ":", "0", "0">>>>,
              <<<<"2", "0", "2", "4", "-", "0", "9", "-", "1", "5", "T", "1", "0", ":", "0", "0">>, <<"2", "0", "2", "5", "-", "1", "0", "-", "1", "1", " ", "0", "9", ":", "3", "0", ":", "0", "0">>>>>>
        base == [id |-> i, title |-> <<"p">> \o DecChars(i), description |-> <<"d">>,
                 tech_stack |-> <<"t">>, github_url |-> Null,
                 created_at |-> IF i <= Len(EarlyDates) THEN EarlyDates[i][2]
                                ELSE <<"2", "0", "2", "5", "-", "1", "1", "-", "0", "3", " ", "1", "2", ":", "0", "0", ":", "0", "0">>]
    IN  IF dated
        THEN base @@ [project_date |->
                        IF i <= Len(EarlyDates) THEN EarlyDates[i][1]
                        ELSE isoformat(date(2025, 10, 31 - i))]
        ELSE base

\* the app has started (init_db has run) on a file whose projects table
\* either is the one init_db creates or has been given a project_date column
AnswerInit ==
    /\ projects = {}
    /\ contacts = {}
    /\ seq = [projects |-> 0, contacts |-> 0]
    /\ schema \in {Schema, Schema \cup {ProjectDateColumn}}
    /\ DATABASE_URL = ""
    /\ client = FALSE
    /\ req = Request("start", <<>>, 0)
    /\ resp = NoRange
    /\ trace = <<>>
    /\ submitted = <<>>

\* a row is inserted into the projects table
StoreRow ==
    /\ seq.projects < MaxRows
    /\ projects' = projects \cup {StoredRow(seq.projects + 1, ProjectDateColumn \in schema)}
    /\ seq' = [seq EXCEPT !.projects = @ + 1]
    /\ req' = Request("start", <<>>, 0)
    /\ resp' = NoRange
    /\ UNCHANGED <<contacts, schema, DATABASE_URL, client, trace, submitted>>

ExtractDateRange ==
    \E question \in DateQuestions :
        /\ req' = Request("_extract_date_range", question, 0)
        /\ resp' = extract_date_range(question)
        /\ UNCHANGED <<projects, contacts, seq, schema, DATABASE_URL, client, trace, submitted>>

AnswerPortfolioQuestion ==
    \E user_question \in AskQuestions :
        /\ req' = Request("answer_portfolio_question", user_question, 0)
        /\ resp' = answer_portfolio_question(user_question, DB)
        /\ UNCHANGED <<projects, contacts, seq, schema, DATABASE_URL, client, trace, submitted>>

AnswerNext ==
    \/ StoreRow
    \/ AnswerPortfolioQuestion

AnswerSpec == AnswerInit /\ [][AnswerNext]_vars

\* _extract_date_range alone: it reads no database
ExtractSpec == AnswerInit /\ [][ExtractDateRange]_vars

(***************************************************************************)
(* Properties of the API.                                                  *)
(***************************************************************************)
\* get_db_connection raised for the request: the database file could not be opened
ConnectFailed == \E i \in DOMAIN trace : trace[i].op = "connect_failed"

\* the four answers the chat handler has ready for a failure
Canned == {HintAnswer, TroubleAnswer, NotConfiguredAnswer, SorryAnswer}

\* the body holds no usable question: none, a blank one, or more than 500
\* characters once stripped
QuestionRefused(data) ==
    /\ HasBody(data)
    /\ \/ MissingField(data, "question")
       \/ PyLen(PyStrip(data.question)) > 500

\* C1, as the code has it: POST /api/chat never lets an exception out and
\* answers 200 or 400; it answers 400 only to a body whose question is
\* missing, blank or over-long; every other failure (no JSON body, ai_helper
\* not importable, no client, the models failing, a rejected query, the
\* database down, a query that does not run) is answered 200 with one of the
\* canned answers; and a refused question is answered 200 only when
\* ai_helper cannot be imported, the import coming first.
C1_ChatFailures ==
    req.ep = "POST /api/chat" =>
        /\ ~resp.raised
        /\ resp.status \in {200, 400}
        /\ resp.status = 400 => QuestionRefused(req.data)
        /\ (resp.status = 200 /\ ~\E i \in DOMAIN trace : trace[i].op = "format_sql_results")
                => resp.body.answer \in Canned
        /\ (resp.status = 200 /\ QuestionRefused(req.data))
                => resp.body.answer = NotConfiguredAnswer

\* C1, as claimed: no POST /api/chat ends with a status other than 200.
C1_AlwaysOk == req.ep = "POST /api/chat" => resp.status = 200

\* a query that SQLite could not run was answered 200 with the canned answer
C1_FailureAnswered ==
    /\ req.ep = "POST /api/chat"
    /\ resp.status = 200
    /\ resp.body.answer = TroubleAnswer
    /\ \E i \in DOMAIN trace : trace[i].op = "execute"

\* C2: every query the chat handler hands to cursor.execute is the value
\* create_sql_query returned earlier in the same request; upper-cased it
\* starts with SELECT, contains FROM and contains none of the seven words.
C2_ExecutedWasValidated ==
    \A i \in DOMAIN trace :
        trace[i].op = "execute" =>
            /\ \E j \in 1..(i - 1) :
                    trace[j].op = "create_sql_query" /\ trace[j].arg = trace[i].arg
            /\ \E upper \in {PyUpper(Chars(trace[i].arg))} :
                    /\ MatchAt(upper, 1, <<"S", "E", "L", "E", "C", "T">>)
                    /\ PyIn(<<"F", "R", "O", "M">>, upper)
                    /\ ~PyIn(<<"D", "R", "O", "P">>, upper)
                    /\ ~PyIn(<<"D", "E", "L", "E", "T", "E">>, upper)
                    /\ ~PyIn(<<"U", "P", "D", "A", "T", "E">>, upper)
                    /\ ~PyIn(<<"I", "N", "S", "E", "R", "T">>, upper)
                    /\ ~PyIn(<<"A", "L", "T", "E", "R">>, upper)
                    /\ ~PyIn(<<"C", "R", "E", "A", "T", "E">>, upper)
                    /\ ~PyIn(<<"T", "R", "U", "N", "C", "A", "T", "E">>, upper)

\* a query was run and its rows were worded into the answer
C2_QueryRun ==
    /\ req.ep = "POST /api/chat"
    /\ \E i \in DOMAIN trace : trace[i].op = "execute"
    /\ \E i \in DOMAIN trace : trace[i].op = "format_sql_results"

\* C3: in every step, a row that stays keeps its fields; a projects row
\* goes only with a DELETE of its id answered 200; a projects row comes only
\* with a POST /api/projects answered 201 and a contacts row only with a
\* POST /api/contact answered 201, one row at a time; no contacts row goes;
\* every other route, and the start of the app, leaves both tables as they are.
C3_Frame ==
    [][ /\ \A r \in projects :
                \/ r \in projects'
                \/ /\ req'.ep = "DELETE /api/projects" /\ resp'.status = 200 /\ req'.id = r.id
                   /\ ~\E n \in projects' : n.id = r.id
        /\ projects' \ projects # {} =>
                /\ req'.ep = "POST /api/projects" /\ resp'.status = 201
                /\ Cardinality(projects' \ projects) = 1
                /\ \A n \in projects' \ projects : ~\E r \in projects : r.id = n.id
        /\ contacts \subseteq contacts'
        /\ contacts' \ contacts # {} =>
                /\ req'.ep = "POST /api/contact" /\ resp'.status = 201
                /\ Cardinality(contacts' \ contacts) = 1
                /\ \A n \in contacts' \ contacts : ~\E r \in contacts : r.id = n.id
        /\ req'.ep \in {"GET /api/projects", "POST /api/chat", "POST /api/admin/verify",
                        "GET /api/health", "start"}
                => projects' = projects /\ contacts' = contacts
        /\ req'.ep = "POST /api/projects" => contacts' = contacts
        /\ req'.ep \in {"POST /api/contact", "DELETE /api/projects"} =>
                \A n \in projects' : n \in projects
      ]_vars

\* a DELETE was answered 200 and took one of two rows
C3_OneRowDeleted ==
    /\ req.ep = "DELETE /api/projects" /\ resp.status = 200
    /\ Cardinality(projects) = 1
    /\ seq.projects = 2
    /\ contacts # {}

\* the columns create_project writes for a body: each text stripped, and no
\* URL (NULL) when none is submitted or the one submitted is empty once stripped
StoredProject(data) ==
    [title |-> PyStrip(data.title), description |-> PyStrip(data.description),
     tech_stack |-> PyStrip(data.tech_stack),
     github_url |-> IF data.github_url = Absent \/ PyStrip(data.github_url) = <<>>
                    THEN None ELSE PyStrip(data.github_url)]

\* C4, as the code has it: a GET /api/projects answered 200 lists, for every
\* id p that a POST was answered 201 with and that no DELETE has removed
\* since, exactly one project with id p, holding the stripped title,
\* description and tech_stack of that POST and its stripped github_url, or
\* null when the POST held no URL or one that is empty once stripped.
C4_RoundTrip ==
    (req.ep = "GET /api/projects" /\ resp.status = 200) =>
        \A p \in DOMAIN submitted :
            /\ Cardinality({i \in DOMAIN resp.body.projects : resp.body.projects[i].id = p}) = 1
            /\ \A i \in DOMAIN resp.body.projects :
                    resp.body.projects[i].id = p =>
                        resp.body.projects[i] = [id |-> p] @@ StoredProject(submitted[p])

\* C4, as claimed: github_url is the stripped submitted URL whenever one was submitted.
C4_RoundTripAsClaimed ==
    (req.ep = "GET /api/projects" /\ resp.status = 200) =>
        \A p \in DOMAIN submitted :
            /\ Cardinality({i \in DOMAIN resp.body.projects : resp.body.projects[i].id = p}) = 1
            /\ \A i \in DOMAIN resp.body.projects :
                    resp.body.projects[i].id = p =>
                        resp.body.projects[i] =
                            [id |-> p, title |-> PyStrip(submitted[p].title),
                             description |-> PyStrip(submitted[p].description),
                             tech_stack |-> PyStrip(submitted[p].tech_stack),
                             github_url |-> IF submitted[p].github_url = Absent THEN None
                                            ELSE PyStrip(submitted[p].github_url)]

\* a GET lists two projects, one created with a URL and padded fields
C4_TwoListed ==
    /\ req.ep = "GET /api/projects" /\ resp.status = 200
    /\ Cardinality(DOMAIN submitted) = 2
    /\ \E p \in DOMAIN submitted : submitted[p] = FullProject
    /\ \E p \in DOMAIN submitted : submitted[p].github_url = Absent

\* the body passes the required-field checks and one of its fields is longer
\* than its column once stripped
FieldTooLong(data) ==
    /\ HasBody(data)
    /\ FirstMissing(data, ProjectRequired) = 0
    /\ data.github_url # None
    /\ \/ PyLen(PyStrip(data.title)) > 200
       \/ PyLen(PyStrip(data.description)) > 2000
       \/ PyLen(PyStrip(data.tech_stack)) > 300
       \/ data.github_url # Absent /\ PyLen(PyStrip(data.github_url)) > 300

\* C5, as claimed, on the SQLite configuration: a POST /api/projects with a
\* field longer than its column is answered 400 and leaves the table as it is.
C5_LengthRejected ==
    [][ (req'.ep = "POST /api/projects" /\ DATABASE_URL = "" /\ FieldTooLong(req'.data))
            => (resp'.status = 400 /\ projects' = projects) ]_vars

\* C6, as claimed, with the database up: a DELETE of an id that is not in
\* the table is answered 404 and changes nothing; a DELETE of an id that is
\* there is answered 200 and removes that row and no other.
C6_DeleteContract ==
    [][ (req'.ep = "DELETE /api/projects" /\ ~ConnectFailed') =>
            IF \E r \in projects : r.id = req'.id
            THEN resp'.status = 200 /\ projects' = {r \in projects : r.id # req'.id}
            ELSE resp'.status = 404 /\ projects' = projects ]_vars

\* C7: every projects row has a title of 1 to 200 characters, a description
\* of at most 2000, a tech_stack of at most 300 and a github_url that is
\* NULL or of at most 300; every contacts row has a name and an email of at
\* most 100 characters and a message of at most 1000.
C7_ColumnBounds ==
    /\ \A r \in projects :
            /\ r.title # None /\ PyLen(r.title) >= 1 /\ PyLen(r.title) <= 200
            /\ r.description # None /\ PyLen(r.description) <= 2000
            /\ r.tech_stack # None /\ PyLen(r.tech_stack) <= 300
            /\ r.github_url = None \/ PyLen(r.github_url) <= 300
    /\ \A r \in contacts :
            /\ r.name # None /\ PyLen(r.name) <= 100
            /\ r.email # None /\ PyLen(r.email) <= 100
            /\ r.message # None /\ PyLen(r.message) <= 1000

\* both tables hold a row with every column at its limit
C7_RowsAtLimit ==
    /\ \E r \in projects :
            /\ PyLen(r.title) = 200 /\ PyLen(r.description) = 2000
            /\ PyLen(r.tech_stack) = 300
            /\ r.github_url # None /\ PyLen(r.github_url) = 300
    /\ \E r \in contacts :
            PyLen(r.name) = 100 /\ PyLen(r.email) = 100 /\ PyLen(r.message) = 1000

\* C8, as claimed, with the database up: the driver behind the connection
\* is the one DATABASE_URL names, the marker written into the SQL is one it
\* accepts, and so an acceptable POST /api/projects or POST /api/contact is
\* answered 201 and a DELETE is answered 200 or 404.
C8_BackendFollowsUrl ==
    (/\ req.ep \in {"POST /api/projects", "POST /api/contact", "DELETE /api/projects"}
     /\ ~ConnectFailed) =>
        /\ get_db_connection = (IF DATABASE_URL # "" THEN "postgres" ELSE "sqlite")
        /\ ParamStyleOk(get_db_connection, Placeholder(DATABASE_URL))
        /\ (req.ep = "POST /api/projects" /\ req.data \in {BaseProject, FullProject})
                => resp.status = 201
        /\ (req.ep = "POST /api/contact" /\ req.data = FullContact) => resp.status = 201
        /\ req.ep = "DELETE /api/projects" => resp.status \in {200, 404}

\* C9: when sqlite3 raises in GET /api/projects, POST /api/projects,
\* DELETE /api/projects/<id> or POST /api/contact (the file cannot be
\* opened, the statement cannot be run, a constraint fails), the exception
\* does not leave the handler, the answer is 500 with an error body, and both
\* tables are as the request found them.
C9_DbErrorIs500 ==
    [][ (/\ req'.ep \in {"GET /api/projects", "POST /api/projects",
                         "DELETE /api/projects", "POST /api/contact"}
         /\ resp'.exc \in {"OperationalError", "IntegrityError"}) =>
            /\ ~resp'.raised
            /\ resp'.status = 500
            /\ DOMAIN resp'.body = {"error"}
            /\ projects' = projects /\ contacts' = contacts ]_vars

\* an INSERT failed on a constraint with rows in both tables, and was answered 500
C9_InsertFailed ==
    /\ req.ep = "POST /api/projects" /\ resp.exc = "IntegrityError" /\ resp.status = 500
    /\ projects # {} /\ contacts # {}

\* a field of the contact form is missing or blank, or too long once
\* stripped, or the email holds no '@'
ContactRefused(data) ==
    \/ FirstMissing(data, ContactRequired) # 0
    \/ PyLen(PyStrip(data.name)) > 100
    \/ PyLen(PyStrip(data.email)) > 100
    \/ PyLen(PyStrip(data.message)) > 1000
    \/ ~PyHasChar(PyStrip(data.email), "@")

\* C10, as claimed, for a request with a JSON body and the database up: a
\* refused form is answered 400 and adds no row; any other is answered 201
\* and adds exactly one contacts row, holding the stripped values; the
\* projects table is left as it is.
C10_ContactContract ==
    [][ (req'.ep = "POST /api/contact" /\ HasBody(req'.data) /\ ~ConnectFailed') =>
            /\ projects' = projects
            /\ IF ContactRefused(req'.data)
               THEN resp'.status = 400 /\ contacts' = contacts
               ELSE /\ resp'.status = 201
                    /\ \E id \in {resp'.body.contact_id} :
                            /\ ~\E r \in contacts : r.id = id
                            /\ contacts' = contacts \cup
                                    {[id |-> id, name |-> PyStrip(req'.data.name),
                                      email |-> PyStrip(req'.data.email),
                                      message |-> PyStrip(req'.data.message)]} ]_vars

\* the databases init_db may be called on in this state: the tables as they
\* are, with any of the indexes and of the tables that hold no row not yet created
Databases ==
    {[DB EXCEPT !.schema = sch] :
        sch \in {x \in SUBSET schema : /\ projects # {} => "projects" \in x
                                       /\ contacts # {} => "contacts" \in x}}

\* C11: on every such database, init_db a second time changes nothing that
\* init_db once has not done, the schema after it is the two tables and the
\* two indexes whatever existed before, and the rows and the AUTOINCREMENT
\* counters of both tables are what they were.
C11_InitDbIdempotent ==
    \A db \in Databases :
        \E once \in {init_db(db)} :
            /\ init_db(once) = once
            /\ init_db(init_db(once)) = once
            /\ once.schema = Schema
            /\ \A other \in Databases : init_db(other).schema = once.schema
            /\ once.projects = db.projects /\ once.contacts = db.contacts
            /\ once.seq = db.seq

\* the app was started again on a database with rows in both tables
C11_RestartedWithRows ==
    /\ req.ep = "start"
    /\ projects # {} /\ contacts # {}

C13_ExamplesAccepted ==
    (/\ req.ep = "POST /api/chat"
     /\ Len(trace) >= 2
     /\ trace[1].op = "create_sql_query"
     /\ trace[2].op = MODELS[1]
     /\ \E i \in DOMAIN PromptExamples : trace[2].arg = PromptExamples[i])
        => trace[1].arg = trace[2].arg

\* C14, as claimed: when the query the chat handler ran holds COUNT(*) and
\* its rows were handed to format_sql_results, the answer is the count
\* sentence built from the first value of the first row, here the number
\* of projects, and no hosted model is called for the wording.
C14_CountAnsweredDirectly ==
    (/\ req.ep = "POST /api/chat"
     /\ \E i \in DOMAIN trace :
            /\ trace[i].op = "execute"
            /\ PyIn(<<"C", "O", "U", "N", "T", "(", "*", ")">>, PyUpper(Chars(trace[i].arg)))
     /\ \E i \in DOMAIN trace : trace[i].op = "format_sql_results") =>
        /\ resp.body.answer =
                CountSentence(PyLower(Chars(PyStrip(req.data.question))),
                              IntCell(Cardinality(projects)))
        /\ trace[Len(trace)].op = "format_sql_results"

\* C15: when create_sql_query returns None, the chat handler opens no
\* connection, runs no query and words no rows, and answers 200 with the
\* portfolio hint and sql_query null; and create_sql_query returns None
\* without calling a model when no client is configured, and returns None
\* when no model completes with text.
C15_NoQueryNoDatabase ==
    (req.ep = "POST /api/chat" /\ trace # <<>> /\ trace[1].op = "create_sql_query") =>
        /\ trace[1].arg = None =>
                /\ \A i \in DOMAIN trace :
                        trace[i].op \notin {"connect", "connect_failed", "execute", "close",
                                            "format_sql_results"}
                /\ resp.status = 200
                /\ resp.body.answer = HintAnswer
                /\ resp.body.sql_query = None
        /\ ~client => (trace[1].arg = None /\ Len(trace) = 1)
        /\ (\A i \in 2..Len(trace) : trace[i].arg = None \/ PyStrip(trace[i].arg) = <<>>)
                => trace[1].arg = None

\* a model replied with a statement that the validation refused
C15_ReplyRefused ==
    /\ req.ep = "POST /api/chat"
    /\ Len(trace) = 2
    /\ trace[1].op = "create_sql_query" /\ trace[1].arg = None
    /\ trace[2].arg = R_drop
    /\ resp.body.answer = HintAnswer

ReturnsFirstText ==
    \A cl \in BOOLEAN : \A outs \in SqlOutcomes \cup FmtOutcomes :
        \E r \in {call_hf_chat(cl, outs)} :
            /\ ~cl => (r.text = None /\ r.calls = 0)
            /\ cl =>
                /\ r.calls \in DOMAIN MODELS
                /\ \A i \in 1..(r.calls - 1) : ~Yields(outs[i])
                /\ IF Yields(outs[r.calls])
                   THEN r.text = PyStrip(outs[r.calls].content)
                   ELSE r.text = None /\ r.calls = Len(MODELS)

\* C17: call_hf_chat returns a value whatever the models do (the code
\* catches what a model raises; the model of it has no exception to give).
\* Without a client it returns None and calls no model.  With one, the
\* models called for a prompt are the first ones of MODELS, in its order,
\* each called once; every model called before the last one raised or
\* completed without text; when the last one called did so too, every model
\* of MODELS was called and None is returned; otherwise the stripped text of
\* the last one called is returned.  In a chat request the models are
\* called right after create_sql_query is entered and right after
\* format_sql_results is, and nowhere else.
C17_ModelsInOrder ==
    LET NoText(a) == a = None \/ PyStrip(a) = <<>>
        IsModel(i) == \E m \in DOMAIN MODELS : trace[i].op = MODELS[m]
        InOrder(lo, hi) ==
            /\ hi - lo + 1 <= Len(MODELS)
            /\ \A i \in lo..hi : trace[i].op = MODELS[i - lo + 1]
            /\ \A i \in lo..(hi - 1) : NoText(trace[i].arg)
            /\ (hi >= lo /\ NoText(trace[hi].arg)) => hi - lo + 1 = Len(MODELS)
        Worded == {i \in DOMAIN trace : trace[i].op = "format_sql_results"}
        Others == {i \in 2..Len(trace) : ~IsModel(i)}
        first_end == IF Others = {} THEN Len(trace)
                     ELSE (CHOOSE i \in Others : \A j \in Others : i <= j) - 1
    IN  /\ ReturnsFirstText
        /\ (req.ep = "POST /api/chat" /\ trace # <<>>) =>
            /\ trace[1].op = "create_sql_query"
            /\ InOrder(2, first_end)
            /\ client => first_end >= 2
            /\ \A k \in Worded : InOrder(k + 1, Len(trace))
            /\ \A i \in DOMAIN trace :
                    IsModel(i) => (i <= first_end \/ \E k \in Worded : k < i)
            /\ ~client => \A i \in DOMAIN trace : ~IsModel(i)
        /\ req.ep # "POST /api/chat" => \A i \in DOMAIN trace : ~IsModel(i)

\* the first model gave nothing and the second the query, which was run
C17_SecondModelAnswered ==
    /\ req.ep = "POST /api/chat"
    /\ Len(trace) >= 4
    /\ trace[2].op = MODELS[1] /\ trace[2].arg = None
    /\ trace[3].op = MODELS[2] /\ trace[3].arg = R_count
    /\ trace[4].op = "connect"

(***************************************************************************)
(* Properties of answer_portfolio_question and _extract_date_range.        *)
(***************************************************************************)
\* C18: answer_portfolio_question, run against a database whose projects
\* table is the one init_db creates, fetches the projects without a
\* database error (every column fetch_projects selects is in that table).
C18_FetchesFromInitDb ==
    (req.ep = "answer_portfolio_question" /\ ProjectDateColumn \notin schema) =>
        ~(resp.raised /\ resp.exc = "OperationalError")

\* C19: _extract_date_range never raises, and when it returns a range the
\* range is [start, end) with start < end, start the first day of a month
\* or year and end the first day of the month or year after it.
C19_RangeWithoutRaising ==
    req.ep = "_extract_date_range" =>
        /\ ~resp.raised
        /\ ~resp.none =>
            /\ resp.start # NoDate /\ resp.end # NoDate
            /\ DateLt(resp.start, resp.end)
            /\ resp.start.d = 1 /\ resp.end.d = 1
            /\ \/ resp.end.y = resp.start.y /\ resp.end.m = resp.start.m + 1
               \/ resp.end.y = resp.start.y + 1 /\ resp.end.m = 1 /\ resp.start.m \in {1, 12}

\* C20: when answer_portfolio_question answers from its date-range branch,
\* the rows of the table whose date (project_date when it parses, created_at
\* otherwise) is in [start, end) of the question's range are the projects
\* listed: none of them gives the "No projects were found" answer; otherwise
\* the lines are distinct rows among them, in ascending order of date, the
\* ListLimit earliest ones when there are more, and a final entry gives the
\* number of those not listed exactly when there are more than ListLimit.
C20_DateBranchLists ==
    (/\ req.ep = "answer_portfolio_question"
     /\ ~resp.raised
     /\ resp.answer.fmt \in {"Projects in {label}:",
                             "No projects were found in {label}.{note}"}) =>
        LET range == extract_date_range(JoinSplit(req.data))
            own(r) == parse_dateish(safe_str(r.project_date))
            eff(r) == IF own(r) # NoDate THEN own(r) ELSE parse_dateish(safe_str(r.created_at))
            lines == resp.answer.args[2]
            Matching(E) ==
                IF E = {} THEN resp.answer.fmt = "No projects were found in {label}.{note}"
                ELSE /\ resp.answer.fmt = "Projects in {label}:"
                     /\ Len(lines) = (IF Cardinality(E) > ListLimit THEN ListLimit
                                      ELSE Cardinality(E))
                     /\ \A k \in DOMAIN lines : \E r \in E :
                            /\ r.title = lines[k].title
                            /\ isoformat(eff(r)) = lines[k].date
                            /\ r.tech_stack = lines[k].tech
                     /\ \A k, l \in DOMAIN lines : k # l => lines[k].title # lines[l].title
                     /\ \A k \in 1..(Len(lines) - 1) :
                            ~DateLt(parse_dateish(lines[k + 1].date), parse_dateish(lines[k].date))
                     /\ \A r \in E :
                            (\A k \in DOMAIN lines : r.title # lines[k].title) =>
                                ~DateLt(eff(r), parse_dateish(lines[Len(lines)].date))
                     /\ resp.answer.args[3] =
                            (IF Cardinality(E) > ListLimit
                             THEN <<Cardinality(E) - ListLimit>> ELSE <<>>)
        IN  Once(Matching, {r \in projects :
                                /\ eff(r) # NoDate
                                /\ ~DateLt(eff(r), range.start)
                                /\ DateLt(eff(r), range.end)})

\* more rows matched than are listed
C20_MoreThanListed ==
    /\ req.ep = "answer_portfolio_question"
    /\ ~resp.raised
    /\ resp.answer.fmt = "Projects in {label}:"
    /\ Len(resp.answer.args[2]) = ListLimit
    /\ resp.answer.args[3] = <<1>>

\* C21: when answer_portfolio_question is asked a question that contains
\* one of the phrases delete, remove, drop, truncate, insert, update, alter,
\* create table, add project, and the projects table holds a row, it returns
\* the read-only refusal (which it does before any call of the hosted
\* model); and whatever the question, it leaves the tables as they are.
C21_ReadOnlyRefusal ==
    [][req'.ep = "answer_portfolio_question" =>
        LET ql == PyLower(JoinSplit(req'.data))
            Mutating ==
                {<<"d", "e", "l", "e", "t", "e">>,
                 <<"r", "e", "m", "o", "v", "e">>,
                 <<"d", "r", "o", "p">>,
                 <<"t", "r", "u", "n", "c", "a", "t", "e">>,
                 <<"i", "n", "s", "e", "r", "t">>,
                 <<"u", "p", "d", "a", "t", "e">>,
                 <<"a", "l", "t", "e", "r">>,
                 <<"c", "r", "e", "a", "t", "e", " ", "t", "a", "b", "l", "e">>,
                 <<"a", "d", "d", " ", "p", "r", "o", "j", "e", "c", "t">>}
        IN  /\ (projects # {} /\ \E phrase \in Mutating : PyIn(phrase, ql)) =>
                /\ ~resp'.raised
                /\ resp'.answer.fmt = "The chat assistant is read-only and can only answer questions about {_CANDIDATE_NAME}'s portfolio projects."
            /\ UNCHANGED <<projects, contacts, seq, schema>>]_vars

====
